---- MODULE Spec2Model ----
(***************************************************************************)
(* Model of node-red-contrib-node-hue: the light item (lib/hue-light.js,   *)
(* the LightItem with capability bitmask, lines 554-1222) driven by the    *)
(* light server with light handlers (unnamed/part_000) and the Node-RED    *)
(* light node (red/hue-node.js).                                           *)
(*                                                                         *)
(* Numbers are integers.  xy chromaticity is kept in units of 1/10000 in   *)
(* the stored state (the code rounds to four decimals) and in units of     *)
(* 1/100000 in commands.  An absent numeric property is NA, an absent xy   *)
(* is the empty tuple, an absent colormode is "undef".                     *)
(* sent is history: for a LightItem driven on its own, the light state of  *)
(* its last 'sendToLight' that no processed updateInfo has followed.       *)
(*                                                                         *)
(* The color-space package is not part of the sources: what its            *)
(* conversions return (hue-light.js:812, 914) is any element of Library.   *)
(* The lines 829-871 lie behind the call at line 827 that throws.          *)
(***************************************************************************)
EXTENDS Integers, Sequences, FiniteSets, TLC

VARIABLES now, lights, lightIDHandler, listeners, lightPollInterval,
          inited, polls, nextTick, emitted, delivered, ret, step, lastInfo,
          config, sent

vars == <<now, lights, lightIDHandler, listeners, lightPollInterval,
          inited, polls, nextTick, emitted, delivered, ret, step, lastInfo,
          config, sent>>

\* ------------------------------------------------------------------ bounds
MaxTime == 4
MaxPolls == 1
MaxOverlap == 2

\* --------------------------------------------------------------- constants
NA == 0 - 1
BriMax == 255
HueMax == 65535
CtMin == 125
CtMax == 500
KelvinMin == 2000
KelvinMax == 8000
XYOne == 10000
EchoSeconds == 2
DefaultInterval == 10000
MinInterval == 500

\* ----------------------------------------------------------- number helpers
\* Math.round of the rational n/d (d > 0): nearest integer, halves upwards
RoundDiv(n, d) == (2 * n + d) \div (2 * d)

\* _.isFinite on a numeric property that is a number or absent
isFinite(v) == v # NA

\* limitValue(val, min, max), val a number (hue-light.js:694)
limitValue(val, min, max) ==
  IF val > max THEN max ELSE IF val < min THEN min ELSE val

\* limitValue(Math.round(v), min, max) where v may be NaN (v absent)
limitRound(v, min, max) ==
  IF v = NA THEN min ELSE limitValue(v, min, max)

\* --------------------------------------------------------------- capability
calculateCapabilties(state) ==
  {"BRI"}
    \cup (IF Len(state.xy) = 2 /\ isFinite(state.xy[1]) /\ isFinite(state.xy[2])
          THEN {"XY"} ELSE {})
    \cup (IF isFinite(state.hue) /\ isFinite(state.sat) THEN {"HS"} ELSE {})
    \cup (IF isFinite(state.ct) THEN {"CT"} ELSE {})

\* ------------------------------------------------------------ bridge items
\* The state (light) or action (group) object of one bridge listing item.
\* effect, alert and reachable are reported by the bridge and dropped by
\* convertHueState.
HueState(on, bri, hue, sat, xy, ct, colormode, reachable) ==
  [on |-> on, bri |-> bri, hue |-> hue, sat |-> sat, xy |-> xy, ct |-> ct,
   colormode |-> colormode, effect |-> "none", alert |-> "none",
   reachable |-> reachable]

\* One item of hueApi.lights() / hueApi.groups().  hs is hueInfo.state of a
\* light and hueInfo.action of a group; hasState tells whether hueInfo.state
\* exists (a group carries a state object of its own, {all_on, any_on}).
HueInfo(id, name, type, hasState, hs) ==
  [typeof |-> "object", id |-> id, name |-> name, type |-> type,
   hasState |-> hasState, hs |-> hs]

ColourOn  == HueState(TRUE, 254, 43812, 254, <<1558, 1474>>, 153, "hs", TRUE)
ColourOff == HueState(FALSE, 254, 43812, 254, <<1558, 1474>>, 153, "hs", TRUE)
ColourXY  == HueState(TRUE, 100, 43812, 254, <<7000, 2960>>, 153, "xy", FALSE)
DimOn     == HueState(TRUE, 254, NA, NA, <<>>, NA, "undef", TRUE)
DimOff    == HueState(FALSE, 100, NA, NA, <<>>, NA, "undef", TRUE)
DimAway   == HueState(FALSE, 100, NA, NA, <<>>, NA, "undef", FALSE)
TempOn    == HueState(TRUE, 254, NA, NA, <<>>, 300, "ct", TRUE)
TempOff   == HueState(FALSE, 100, NA, NA, <<>>, 300, "ct", TRUE)
TempBare  == HueState(TRUE, 254, NA, NA, <<>>, 300, "undef", TRUE)
HueSatOn  == HueState(TRUE, 1, 0, 0, <<>>, NA, "hs", TRUE)

\* the items a light listing can hold for light 1
LightInfos ==
  { HueInfo("1", "Lamp", "Extended color light", TRUE, ColourOn),
    HueInfo("1", "Lamp", "Extended color light", TRUE, ColourOff),
    HueInfo("1", "Spot", "Extended color light", TRUE, ColourXY),
    HueInfo("1", "Lamp", "Dimmable light", TRUE, DimOn),
    HueInfo("1", "Lamp", "Dimmable light", TRUE, DimOff),
    HueInfo("1", "Desk", "Dimmable light", TRUE, DimAway),
    HueInfo("1", "Lamp", "Color temperature light", TRUE, TempOn),
    HueInfo("1", "Lamp", "Color temperature light", TRUE, TempBare),
    HueInfo("1", "Lamp", "Color light", TRUE, HueSatOn),
    HueInfo("1", "Lamp", "Dimmable light", FALSE, DimOn) }

\* what is passed for hueInfo is no object: null, undefined, a number or a
\* string (test/hue-light.test.js:880-886)
Value(typeof) ==
  [HueInfo("", "", "", FALSE, DimOff) EXCEPT !.typeof = typeof]

Malformed == { Value("null"), Value("undefined"), Value("number"), Value("string") }

\* the items a group listing can hold for group 1
GroupInfos ==
  { HueInfo("1", "Room", "LightGroup", TRUE, TempOn),
    HueInfo("1", "Room", "LightGroup", TRUE, TempOff),
    HueInfo("1", "Hall", "Room", TRUE, DimOn),
    HueInfo("1", "Room", "LightGroup", FALSE, TempOn),
    HueInfo("1", "Room", "LightGroup", FALSE, DimOff) }

\* ------------------------------------------------------------ light state
\* An internal state object / a newValues object: the properties
\* convertHueState keeps.
State(on, bri, hue, sat, xy, ct, colormode) ==
  [on |-> on, bri |-> bri, hue |-> hue, sat |-> sat, xy |-> xy, ct |-> ct,
   colormode |-> colormode]

\* newValues = { on: ... } (hue-light.js:1015)
NewValues(on) == State(on, NA, NA, NA, <<>>, NA, "undef")

\* _.merge(this.state, newValues): properties newValues defines overwrite
merge(state, nv) ==
  State(nv.on,
        IF nv.bri # NA THEN nv.bri ELSE state.bri,
        IF nv.hue # NA THEN nv.hue ELSE state.hue,
        IF nv.sat # NA THEN nv.sat ELSE state.sat,
        IF nv.xy # <<>> THEN nv.xy ELSE state.xy,
        IF nv.ct # NA THEN nv.ct ELSE state.ct,
        IF nv.colormode # "undef" THEN nv.colormode ELSE state.colormode)

\* convertHueState throws when colormode is missing and hueInfo.state does
\* not exist (hue-light.js:676-677 reads hueInfo.state.ct): null and
\* undefined have no property state to read (line 665), a number and a
\* string have neither state nor action
convertHueStateThrows(hueInfo, isLight) ==
  LET hasColormode == (isLight => hueInfo.hasState) /\ hueInfo.hs.colormode # "undef"
  IN  \/ hueInfo.typeof # "object"
      \/ ~hasColormode /\ ~hueInfo.hasState

convertHueState(hueInfo, isLight) ==
  LET hs == hueInfo.hs IN
  State(hs.on, hs.bri, hs.hue, hs.sat, hs.xy, hs.ct,
        IF hs.colormode # "undef" THEN hs.colormode
        ELSE IF isLight /\ hs.ct # NA THEN "ct" ELSE "bri")

\* new LightItem(id, hueInfo, isLight); throws when convertHueState does
LightItemThrows(hueInfo, isLight) == convertHueStateThrows(hueInfo, isLight)

LightItem(id, hueInfo, isLight) ==
  LET state == convertHueState(hueInfo, isLight) IN
  [id |-> id, modified |-> 0, isLight |-> isLight, state |-> state,
   info |-> [id |-> hueInfo.id, name |-> hueInfo.name, type |-> hueInfo.type,
             reachable |-> IF isLight THEN hueInfo.hs.reachable ELSE TRUE,
             capability |-> calculateCapabilties(state)]]

\* ---------------------------------------------------------------- commands
\* The properties of a command object.  on is "true", "false" or "undef"
\* (absent or not a boolean); xy is in 1/100000; sat is a percentage.
\* The properties x, y, hue, red, green, blue and hex are read only behind
\* the call at hue-light.js:827 and never reached: hue, hex (a string, ""
\* when absent) and red, green, blue are carried and never read.  No line
\* of parseColorRGB reads rgb (an array, <<>> when absent).  alert is
\* "lselect", "false" or "undef" (absent); no line of setColor reads it.
Object(on, bri, brightness, xy, ct, mirek, mired, kelvin, duration, sat, hue, alert, hex, rgb, red, green, blue) ==
  [on |-> on, bri |-> bri, brightness |-> brightness, xy |-> xy, ct |-> ct,
   mirek |-> mirek, mired |-> mired, kelvin |-> kelvin, duration |-> duration,
   sat |-> sat, hue |-> hue, alert |-> alert,
   hex |-> hex, rgb |-> rgb, red |-> red, green |-> green, blue |-> blue]

Empty ==
  Object("undef", NA, NA, <<>>, NA, NA, NA, NA, NA, NA, NA, "undef",
         "", <<>>, NA, NA, NA)

\* a command value with its typeof
Boolean(b)   == [type |-> "boolean", b |-> b, s |-> "", n |-> 0, o |-> Empty]
String(s)    == [type |-> "string", b |-> FALSE, s |-> s, n |-> 0, o |-> Empty]
Number(n)    == [type |-> "number", b |-> FALSE, s |-> "", n |-> n, o |-> Empty]
Undefined    == [type |-> "undefined", b |-> FALSE, s |-> "", n |-> 0, o |-> Empty]
Null         == [type |-> "null", b |-> FALSE, s |-> "", n |-> 0, o |-> Empty]
Obj(o)       == [type |-> "object", b |-> FALSE, s |-> "", n |-> 0, o |-> o]

Shorthands ==
  { Boolean(TRUE), Boolean(FALSE), String("on"), String("off"), Number(33) }

Unhandled == { String("test"), Undefined }

Objects ==
  { Obj(Empty),
    Obj([Empty EXCEPT !.on = "false"]),
    Obj([Empty EXCEPT !.on = "true"]),
    Obj([Empty EXCEPT !.bri = 50]),
    Obj([Empty EXCEPT !.on = "true", !.bri = 150]),
    Obj([Empty EXCEPT !.on = "false", !.bri = 50]),
    Obj([Empty EXCEPT !.brightness = 100, !.duration = 500]),
    Obj([Empty EXCEPT !.on = "true", !.duration = 1400]),
    Obj([Empty EXCEPT !.xy = <<30004, 120000>>]),
    Obj([Empty EXCEPT !.xy = <<30004, 30000>>, !.bri = 50]),
    Obj([Empty EXCEPT !.on = "true", !.xy = <<30004, 30000>>, !.brightness = 150]),
    Obj([Empty EXCEPT !.xy = <<30004, 30000>>, !.sat = 150, !.hue = 400]),
    Obj([Empty EXCEPT !.alert = "lselect"]),
    Obj([Empty EXCEPT !.alert = "false"]),
    Obj([Empty EXCEPT !.hex = "#ff0000"]),
    Obj([Empty EXCEPT !.rgb = <<255, 0, 0>>]),
    Obj([Empty EXCEPT !.red = 255, !.green = 0, !.blue = 0]),
    Obj([Empty EXCEPT !.kelvin = 100]),
    Obj([Empty EXCEPT !.ct = 200, !.bri = 90]),
    Obj([Empty EXCEPT !.on = "true", !.mired = 600, !.brightness = 150]) }

Commands == Shorthands \cup Unhandled \cup Objects \cup {Null}

\* ------------------------------------------------------------------ events
\* What a LightItem emits: 'warning', 'sendToLight' (with the light state
\* built for the bridge), 'change', 'update'.
NoIntent == [on |-> FALSE, bri |-> NA, ct |-> NA, xy |-> <<>>, hue |-> NA,
             sat |-> NA, transition |-> NA, alert |-> "undef"]

Event(ev, id, intent) == [ev |-> ev, id |-> id, intent |-> intent]

\* --------------------------------------------------------------- updateInfo
\* A variant of the guard that lets a snapshot through during the last
\* second of the echo window; EchoSuppression fails against it.
updateInfoIgnoredLate(light, t) == light.modified > t + 1

\* the guard of updateInfo (hue-light.js:760)
updateInfoIgnored(light, t) == light.modified >= t

updateInfoThrows(light, hueInfo, t) ==
  ~updateInfoIgnored(light, t) /\ convertHueStateThrows(hueInfo, light.isLight)

\* A variant of updateInfo that keeps the capability of the light as it
\* was constructed; CapabilityDerived fails against it.
updateInfoStale(light, hueInfo, t) ==
  IF updateInfoIgnored(light, t) THEN light
  ELSE
    LET newState  == convertHueState(hueInfo, light.isLight)
        reachable == IF light.isLight /\ hueInfo.hs.reachable # light.info.reachable
                     THEN hueInfo.hs.reachable ELSE light.info.reachable
        isUpdated == light.state # newState
    IN  [light EXCEPT
           !.state = IF isUpdated THEN newState ELSE @,
           !.info = [@ EXCEPT
                       !.reachable = reachable,
                       !.name = hueInfo.name,
                       !.type = hueInfo.type]]

\* the light after updateInfo(hueInfo) returned (hue-light.js:758-787)
updateInfo(light, hueInfo, t) ==
  IF updateInfoIgnored(light, t) THEN light
  ELSE
    LET newState  == convertHueState(hueInfo, light.isLight)
        reachable == IF light.isLight /\ hueInfo.hs.reachable # light.info.reachable
                     THEN hueInfo.hs.reachable ELSE light.info.reachable
        isUpdated == light.state # newState
    IN  [light EXCEPT
           !.state = IF isUpdated THEN newState ELSE @,
           !.info = [@ EXCEPT
                       !.reachable = reachable,
                       !.capability = IF isUpdated THEN calculateCapabilties(newState)
                                      ELSE @,
                       !.name = hueInfo.name,
                       !.type = hueInfo.type]]

\* A variant of updateInfo's emissions that also pushes the observed state
\* back to the bridge; ReconcileSendsNothing fails against it.
updateInfoEventsSending(light, hueInfo, t) ==
  IF light.modified >= t \/ light.state = convertHueState(hueInfo, light.isLight)
  THEN <<>>
  ELSE <<Event("sendToLight", light.info.id, NoIntent),
         Event("update", light.id, NoIntent)>>

\* A variant of updateInfo's emissions that reports every snapshot it takes;
\* IdenticalPollsQuietProcessed fails against it.
updateInfoEventsAlways(light, hueInfo, t) ==
  IF light.modified >= t THEN <<>> ELSE <<Event("update", light.id, NoIntent)>>

\* what updateInfo(hueInfo) emits
updateInfoEvents(light, hueInfo, t) ==
  IF updateInfoIgnored(light, t) THEN <<>>
  ELSE IF light.state # convertHueState(hueInfo, light.isLight)
       THEN <<Event("update", light.id, NoIntent)>>
       ELSE <<>>

\* ----------------------------------------------------------------- setColor
\* Math.round(p * (0xFF/100)) in IEEE doubles, p an integer percentage:
\* 0xFF/100 lies just below 2.55, and for the p of FloatLow the product
\* falls below the half that p * 255 / 100 is exactly.
FloatLow == {50, 90, 170, 190}

roundScaled(p) ==
  IF p \in FloatLow THEN RoundDiv(p * BriMax, 100) - 1 ELSE RoundDiv(p * BriMax, 100)

\* Math.round((p * 0xFF) / 100)
roundPercent(p) == RoundDiv(p * BriMax, 100)

hasCapability(light, cap) == cap \in light.info.capability

validXY(input) == Len(input.xy) = 2

\* parseColorRGB reaches _.ixFinite(input.x), which is not a function of
\* lodash, whenever the light has XY or HS and input.xy is no valid pair
\* (hue-light.js:827)
parseColorRGBThrows(light, input) ==
  (hasCapability(light, "XY") \/ hasCapability(light, "HS")) /\ ~validXY(input)

\* parseColorRGB returned true
parseColorRGBChanged(light, input) ==
  (hasCapability(light, "XY") \/ hasCapability(light, "HS")) /\ validXY(input)

\* What the color-space package answers in one parseColorRGB: hsv is the
\* hue in degrees and the saturation in percent of colorSpace.xyy.hsv(xyY)
\* (lines 883, 914); xy and Y are the chromaticity, in 1/10000, and the
\* third component, in percent, of colorSpace.hsv.xyy (lines 812, 885).
\* The answers lie in the ranges of the colour spaces.
Library == { [Y |-> 0, hsv |-> <<0, 100>>, xy |-> <<0, 0>>],
            [Y |-> 20, hsv |-> <<217, 18>>, xy |-> <<3127, 3290>>],
            [Y |-> 100, hsv |-> <<360, 0>>, xy |-> <<7350, 2650>>] }

\* output of parseColorRGB with input.xy a valid pair (hue-light.js:
\* 807-824, 895-919); the limitValue calls of lines 906-917 are given no
\* range and limit nothing
parseColorRGB(light, input, output, lib) ==
  LET x == limitValue(input.xy[1], 0, 10 * XYOne)
      y == limitValue(input.xy[2], 0, 10 * XYOne)
      \* input.sat replaces the saturation and xyY is converted anew
      \* (lines 880-886)
      converted == isFinite(input.sat)
      Y == IF hasCapability(light, "XY") /\ ~converted THEN light.state.bri
           ELSE roundScaled(lib.Y)
      bri == IF isFinite(input.bri) THEN roundScaled(input.bri)
             ELSE IF isFinite(input.brightness) THEN roundScaled(input.brightness)
             ELSE Y
  IN  IF hasCapability(light, "XY")
      THEN [output EXCEPT !.colormode = "xy",
                          !.xy = IF converted THEN lib.xy
                                 ELSE <<RoundDiv(x, 10), RoundDiv(y, 10)>>,
                          !.bri = bri]
      ELSE [output EXCEPT !.colormode = "hsv",
                          !.hue = RoundDiv(lib.hsv[1] * HueMax, 360),
                          !.sat = IF converted
                                  THEN roundScaled(limitValue(input.sat, 0, 100))
                                  ELSE roundScaled(lib.hsv[2]),
                          !.bri = bri]

\* parseColorTemp returned true (hue-light.js:929-969)
parseColorTempChanged(light, input) ==
  /\ hasCapability(light, "CT")
  /\ \/ isFinite(input.ct)
     \/ isFinite(input.mirek)
     \/ isFinite(input.mired)
     \/ isFinite(input.kelvin)

\* A variant of parseColorTemp that limits neither kelvin nor ct;
\* ColourInRange fails against it.
parseColorTempUnlimited(light, input, output) ==
  LET ct == IF isFinite(input.ct) THEN input.ct
            ELSE IF isFinite(input.mirek) THEN input.mirek
            ELSE IF isFinite(input.mired) THEN input.mired
            ELSE RoundDiv(1000000, input.kelvin)
      bri == IF isFinite(input.bri) THEN roundPercent(input.bri)
             ELSE IF isFinite(input.brightness) THEN roundPercent(input.brightness)
             ELSE light.state.bri
  IN  [output EXCEPT !.colormode = "ct",
                     !.ct = ct,
                     !.bri = limitRound(bri, 0, BriMax)]

\* output of parseColorTemp (hue-light.js:935-973)
parseColorTemp(light, input, output) ==
  LET ct == IF isFinite(input.ct) THEN input.ct
            ELSE IF isFinite(input.mirek) THEN input.mirek
            ELSE IF isFinite(input.mired) THEN input.mired
            ELSE RoundDiv(1000000, limitValue(input.kelvin, KelvinMin, KelvinMax))
      bri == IF isFinite(input.bri) THEN roundPercent(input.bri)
             ELSE IF isFinite(input.brightness) THEN roundPercent(input.brightness)
             ELSE light.state.bri
  IN  [output EXCEPT !.colormode = "ct",
                     !.ct = limitValue(ct, CtMin, CtMax),
                     !.bri = limitRound(bri, 0, BriMax)]

\* parseBrightness returned true (hue-light.js:984-1000)
parseBrightnessChanged(light, input) ==
  isFinite(input.bri) \/ isFinite(input.brightness)

\* A variant of parseBrightness that also marks the light as brightness
\* only; BrightnessLeavesColour fails against it.
parseBrightnessMode(light, input, output) ==
  LET bri == IF isFinite(input.bri) THEN roundPercent(input.bri)
             ELSE roundPercent(input.brightness)
  IN  [output EXCEPT !.bri = limitValue(bri, 0, BriMax), !.colormode = "bri"]

\* output of parseBrightness (hue-light.js:1003)
parseBrightness(light, input, output) ==
  LET bri == IF isFinite(input.bri) THEN roundPercent(input.bri)
             ELSE roundPercent(input.brightness)
  IN  [output EXCEPT !.bri = limitValue(bri, 0, BriMax)]

\* the input is of no handled type (hue-light.js:1033-1037)
setColorUnhandled(input) ==
  \/ input.type = "undefined"
  \/ input.type = "string" /\ input.s \notin {"on", "off"}

\* the object a handled input is converted to (hue-light.js:1020-1032)
inputObject(input) ==
  CASE input.type = "boolean" ->
         [Empty EXCEPT !.on = IF input.b THEN "true" ELSE "false"]
    [] input.type = "string" ->
         [Empty EXCEPT !.on = IF input.s = "on" THEN "true" ELSE "false"]
    [] input.type = "number" -> [Empty EXCEPT !.on = "true", !.bri = input.n]
    [] OTHER -> input.o

\* setColor throws a TypeError: null has no properties to read, and
\* parseColorRGB may throw
setColorThrows(light, input) ==
  /\ ~setColorUnhandled(input)
  /\ \/ input.type = "null"
     \/ parseColorRGBThrows(light, inputObject(input))

\* setColor returns after applying the command
setColorAccepted(light, input) ==
  ~setColorUnhandled(input) /\ ~setColorThrows(light, input)

\* the answers the package can give in setColor(input): with an input.xy
\* that is a valid pair it is called for a light with HS and without XY,
\* and for a light with XY when input.sat is to be converted
libraryAnswers(light, input) ==
  IF /\ setColorAccepted(light, input)
     /\ validXY(inputObject(input))
     /\ \/ hasCapability(light, "HS") /\ ~hasCapability(light, "XY")
        \/ hasCapability(light, "XY") /\ isFinite(inputObject(input).sat)
  THEN Library
  ELSE {CHOOSE lib \in Library : TRUE}

\* A variant of the initial newValues that takes the light to be on;
\* OnPreserved fails against it.
initialValuesOn(light) == NewValues(TRUE)

\* var newValues = { on: this.state.on } (hue-light.js:1015-1017)
initialValues(light) == NewValues(light.state.on)

\* newValues of an accepted command (hue-light.js:1019-1052)
newValues(light, input, lib) ==
  LET in  == inputObject(input)
      nv0 == initialValues(light)
      nv1 == IF parseColorRGBChanged(light, in) THEN parseColorRGB(light, in, nv0, lib)
             ELSE IF parseColorTempChanged(light, in) THEN parseColorTemp(light, in, nv0)
             ELSE IF parseBrightnessChanged(light, in) THEN parseBrightness(light, in, nv0)
             ELSE nv0
  IN  [nv1 EXCEPT !.on = IF in.on # "undef" THEN in.on = "true" ELSE @]

\* A variant that adds the duration rounded up to whole seconds;
\* EchoDeadlineRounded fails against it.
durationSecondsCeil(duration) ==
  IF isFinite(duration) /\ duration > 0 THEN (duration + 999) \div 1000 ELSE 0

\* the seconds a duration adds to modified: Math.round(1 + duration/1000)
durationSeconds(duration) ==
  IF isFinite(duration) /\ duration > 0 THEN RoundDiv(1000 + duration, 1000) ELSE 0

\* A variant that copies the new values into the state of a light that
\* goes off as well; OffChangesOnlyOn fails against it.
applyColorMerging(light, input, t, lib) ==
  LET nv == newValues(light, input, lib) IN
  [light EXCEPT
     !.state = merge(@, nv),
     !.modified = t + EchoSeconds + durationSeconds(inputObject(input).duration)]

\* the light after an accepted setColor(input) at uptime t
\* (hue-light.js:1054-1100)
applyColor(light, input, t, lib) ==
  LET nv == newValues(light, input, lib) IN
  [light EXCEPT
     !.state = IF nv.on THEN merge(@, nv) ELSE [@ EXCEPT !.on = FALSE],
     !.modified = t + EchoSeconds + durationSeconds(inputObject(input).duration)]

\* the light state built for the bridge from the state after the command
\* (hue-light.js:1067-1100)
lightState(state, input) ==
  LET duration == inputObject(input).duration
      base == [NoIntent EXCEPT
                 !.transition = IF isFinite(duration) /\ duration > 0
                                THEN duration ELSE NA]
  IN  IF state.on
      THEN [base EXCEPT
              !.on = TRUE,
              !.bri = state.bri,
              !.ct = IF state.colormode = "ct" THEN state.ct ELSE NA,
              !.xy = IF state.colormode = "xy" THEN state.xy ELSE <<>>,
              !.hue = IF state.colormode = "hue" THEN state.hue ELSE NA,
              !.sat = IF state.colormode = "hue" THEN state.sat ELSE NA]
      ELSE base

\* the light after setColor(input) at uptime t, however it ended
setColor(light, input, t, lib) ==
  IF setColorAccepted(light, input) THEN applyColor(light, input, t, lib) ELSE light

\* A variant of the emits that is silent when the command left the state
\* as it was; CommandAlwaysEmits fails against it.
setColorEventsChanged(light, input, t, lib) ==
  IF setColorUnhandled(input) THEN <<Event("warning", light.id, NoIntent)>>
  ELSE IF setColorThrows(light, input) THEN <<>>
  ELSE IF setColor(light, input, t, lib).state = light.state THEN <<>>
  ELSE <<Event("sendToLight", light.info.id,
               lightState(setColor(light, input, t, lib).state, input)),
         Event("change", light.id, NoIntent)>>

\* what setColor(input) emits (hue-light.js:1033-1037, 1102-1104)
setColorEvents(light, input, t, lib) ==
  IF setColorUnhandled(input) THEN <<Event("warning", light.id, NoIntent)>>
  ELSE IF setColorThrows(light, input) THEN <<>>
  ELSE <<Event("sendToLight", light.info.id,
               lightState(setColor(light, input, t, lib).state, input)),
         Event("change", light.id, NoIntent)>>

\* ---------------------------------------------------------- getStateMessage
\* A variant of the state message that reports every light as on;
\* StateMessageProjects fails against it.
getStateMessageOn(light, event) ==
  [id |-> light.id,
   event |-> event,
   info |-> [id |-> light.info.id, name |-> light.info.name,
             type |-> light.info.type, group |-> ~light.isLight,
             capability |-> light.info.capability],
   payload |-> [on |-> TRUE,
                reachable |-> light.info.reachable,
                bri |-> IF light.state.bri = NA THEN NA
                        ELSE RoundDiv(light.state.bri * 100, BriMax),
                mired |-> IF light.state.colormode = "ct" THEN light.state.ct ELSE NA,
                kelvin |-> IF light.state.colormode = "ct" /\ light.state.ct # NA
                           THEN RoundDiv(1000000, light.state.ct) ELSE NA],
   state |-> light.state]

\* The state message without the colours derived through the color-space
\* and color-convert packages (hue-light.js:1115-1218).  bri is NA when the
\* state has no brightness (NaN in the code).
getStateMessage(light, event) ==
  [id |-> light.id,
   event |-> event,
   info |-> [id |-> light.info.id, name |-> light.info.name,
             type |-> light.info.type, group |-> ~light.isLight,
             capability |-> light.info.capability],
   payload |-> [on |-> light.state.on,
                reachable |-> light.info.reachable,
                bri |-> IF light.state.bri = NA THEN NA
                        ELSE RoundDiv(light.state.bri * 100, BriMax),
                mired |-> IF light.state.colormode = "ct" THEN light.state.ct ELSE NA,
                kelvin |-> IF light.state.colormode = "ct" /\ light.state.ct # NA
                           THEN RoundDiv(1000000, light.state.ct) ELSE NA],
   state |-> light.state]

\* ------------------------------------------------------------- light server
\* createLightID (part_000:15)
createLightID(hueInfo, isLight) ==
  (IF isLight THEN "light" ELSE "group") \o hueInfo.id

NoInfo == HueInfo("", "", "", FALSE, DimOff)

LightIDs == {"light1", "light2", "group1"}

\* History kept for the properties: per lightID the item the last poll
\* held for it since the last command or stop, and whether the light took
\* it (constructed from it, or updateInfo neither ignored it nor threw).
Polled(hueInfo, processed) == [hueInfo |-> hueInfo, processed |-> processed]

NothingPolled == [id \in LightIDs |-> <<>>]

\* the call made in the last step
Step(op, id, input, hueInfo) ==
  [op |-> op, id |-> id, input |-> input, hueInfo |-> hueInfo,
   lightsInfo |-> <<>>, groupInfo |-> <<>>, previous |-> NothingPolled,
   before |-> <<>>, callback |-> ""]

\* the last step called a method of light, which was as before
StepLight(op, light, input, hueInfo) ==
  [Step(op, light.id, input, hueInfo) EXCEPT !.before = <<light>>]

\* the last step processed the two listings of a poll; previous is the
\* history of the polls before it
StepPoll(lightsInfo, groupInfo, previous) ==
  [Step("processItems", "", Undefined, NoInfo) EXCEPT
     !.lightsInfo = lightsInfo, !.groupInfo = groupInfo, !.previous = previous]

\* what the last call returned: "none", "threw", "true", "false", "null"
\* or "message" with the message
Ret(v) == [v |-> v, msg |-> <<>>]

RetMessage(msg) == [v |-> "message", msg |-> msg]

\* the variables of the light server, untouched while a LightItem is used
\* on its own
serverVars == <<lightIDHandler, listeners, lightPollInterval, inited, polls,
                nextTick, delivered, lastInfo, config>>

\* A value configured as the poll interval: a number, NaN, a string (its
\* characters) or nothing.
IntervalNumber(n) == [type |-> "number", nan |-> FALSE, n |-> n, chars |-> <<>>]
IntervalNaN == [type |-> "number", nan |-> TRUE, n |-> 0, chars |-> <<>>]
IntervalString(chars) == [type |-> "string", nan |-> FALSE, n |-> 0, chars |-> chars]
IntervalUndefined == [type |-> "undefined", nan |-> FALSE, n |-> 0, chars |-> <<>>]

Digit ==
  [c \in {"0", "1", "2", "3", "4", "5", "6", "7", "8", "9"} |->
     CASE c = "0" -> 0 [] c = "1" -> 1 [] c = "2" -> 2 [] c = "3" -> 3
       [] c = "4" -> 4 [] c = "5" -> 5 [] c = "6" -> 6 [] c = "7" -> 7
       [] c = "8" -> 8 [] c = "9" -> 9]

RECURSIVE trimStart(_)
trimStart(chars) ==
  IF chars # <<>> /\ Head(chars) = " " THEN trimStart(Tail(chars)) ELSE chars

RECURSIVE digitsValue(_, _)
\* the value of the leading digits of chars, after the digits whose value
\* is acc; NA when there is no digit at all
digitsValue(chars, acc) ==
  IF chars = <<>> \/ Head(chars) \notin DOMAIN Digit THEN acc
  ELSE digitsValue(Tail(chars), (IF acc = NA THEN 0 ELSE acc * 10) + Digit[Head(chars)])

\* parseInt(string, 10): leading white space is skipped, then a sign and
\* the digits up to the first other character are read; NaN without a digit
parseInt(chars) ==
  LET trimmed == trimStart(chars)
      signed == trimmed # <<>> /\ Head(trimmed) \in {"-", "+"}
      value == digitsValue(IF signed THEN Tail(trimmed) ELSE trimmed, NA)
  IN  IF value = NA THEN IntervalNaN
      ELSE IF signed /\ Head(trimmed) = "-" THEN IntervalNumber(0 - value)
      ELSE IntervalNumber(value)

\* A variant of the constructor's check without the lower limit;
\* IntervalFloor fails against it.
configIntervalUnlimited(configured) ==
  LET interval == IF configured.type = "string" THEN parseInt(configured.chars)
                  ELSE configured
  IN  IF interval.type # "number" \/ interval.nan THEN DefaultInterval
      ELSE interval.n

\* self.config.interval after the constructor (part_000:83-94)
configInterval(configured) ==
  LET interval == IF configured.type = "string" THEN parseInt(configured.chars)
                  ELSE configured
  IN  IF interval.type # "number" \/ interval.nan THEN DefaultInterval
      ELSE IF interval.n < MinInterval THEN MinInterval
      ELSE interval.n

\* the config the server was constructed with and the interval it keeps
Config(configured) == [configured |-> configured, interval |-> configInterval(configured)]

\* new LightServer(config) with config.interval = configured (part_000:78-120)
LightServer(configured) ==
  /\ config = Config(configured)
  /\ lightIDHandler = {}
  /\ listeners = {}
  /\ lightPollInterval = FALSE
  /\ inited = FALSE
  /\ polls = <<>>
  /\ nextTick = <<>>
  /\ delivered = <<>>
  /\ lastInfo = NothingPolled

ServerInit == LightServer(IntervalUndefined)

\* -------------------------------------------------- a LightItem on its own
\* One LightItem constructed from a bridge item and then driven through its
\* methods, as test/hue-light.test.js drives it.
InitLight ==
  /\ now = 1
  /\ \E isLight \in BOOLEAN :
       \E hueInfo \in (IF isLight THEN LightInfos ELSE GroupInfos) :
         /\ ~LightItemThrows(hueInfo, isLight)
         /\ lights = [id \in {createLightID(hueInfo, isLight)} |->
                        LightItem(id, hueInfo, isLight)]
         /\ sent = [id \in {createLightID(hueInfo, isLight)} |-> <<>>]
  /\ emitted = <<>>
  /\ ret = Ret("none")
  /\ step = Step("new", "", Undefined, NoInfo)
  /\ ServerInit

\* process.uptime() grows
Advance ==
  /\ now < MaxTime
  /\ now' = now + 1
  /\ emitted' = <<>>
  /\ ret' = Ret("none")
  /\ step' = Step("advance", "", Undefined, NoInfo)
  /\ UNCHANGED <<lights, sent, serverVars>>

\* the name the bridge reports for the colour representation the light
\* holds: 'hs' for hue and saturation, none for a light it reports no
\* colormode for (test/hue-light.test.js:16-35)
bridgeColormode(colormode) ==
  CASE colormode \in {"hsv", "hue", "hs"} -> "hs"
    [] colormode = "bri" -> "undef"
    [] OTHER -> colormode

\* The item the bridge lists for the light once it has taken over the light
\* state sent to it (part_000:273-275): the values of the intent, and what
\* the intent does not carry as the light holds it.
echo(light, intent) ==
  LET state == light.state IN
  HueInfo(light.info.id, light.info.name, light.info.type, TRUE,
          HueState(intent.on,
                   IF intent.bri # NA THEN intent.bri ELSE state.bri,
                   IF intent.hue # NA THEN intent.hue ELSE state.hue,
                   IF intent.sat # NA THEN intent.sat ELSE state.sat,
                   IF intent.xy # <<>> THEN intent.xy ELSE state.xy,
                   IF intent.ct # NA THEN intent.ct ELSE state.ct,
                   bridgeColormode(state.colormode),
                   light.info.reachable))

\* the items the bridge can list for the light after the light state sent
echoes(id) == { echo(lights[id], sent[id][i]) : i \in DOMAIN sent[id] }

\* light.setColor(input); sent keeps the light state of the 'sendToLight'
SetColor(id, input) ==
  /\ id \in DOMAIN lights
  /\ \E lib \in libraryAnswers(lights[id], input) :
       /\ lights' = [lights EXCEPT ![id] = setColor(@, input, now, lib)]
       /\ emitted' = setColorEvents(lights[id], input, now, lib)
       /\ sent' = IF setColorAccepted(lights[id], input)
                  THEN [sent EXCEPT ![id] =
                          <<lightState(setColor(lights[id], input, now, lib).state,
                                       input)>>]
                  ELSE sent
  /\ ret' = IF setColorThrows(lights[id], input) THEN Ret("threw") ELSE Ret("none")
  /\ step' = StepLight("setColor", lights[id], input, NoInfo)
  /\ UNCHANGED <<now, serverVars>>

\* light.updateInfo(hueInfo); a snapshot that is processed ends the wait
\* for the answer to the light state sent
UpdateInfo(id, hueInfo) ==
  /\ id \in DOMAIN lights
  /\ IF updateInfoThrows(lights[id], hueInfo, now)
     THEN /\ ret' = Ret("threw")
          /\ emitted' = <<>>
          /\ UNCHANGED <<lights, sent>>
     ELSE /\ ret' = Ret("none")
          /\ emitted' = updateInfoEvents(lights[id], hueInfo, now)
          /\ lights' = [lights EXCEPT ![id] = updateInfo(@, hueInfo, now)]
          /\ sent' = IF updateInfoIgnored(lights[id], now) THEN sent
                     ELSE [sent EXCEPT ![id] = <<>>]
  /\ step' = StepLight("updateInfo", lights[id], Undefined, hueInfo)
  /\ UNCHANGED <<now, serverVars>>

\* light.getStateMessage()
GetStateMessage(id) ==
  /\ id \in DOMAIN lights
  /\ ret' = RetMessage(getStateMessage(lights[id], ""))
  /\ emitted' = <<>>
  /\ step' = Step("getStateMessage", id, Undefined, NoInfo)
  /\ UNCHANGED <<now, lights, sent, serverVars>>

NextLight ==
  \/ Advance
  \/ \E id \in DOMAIN lights : \E input \in Commands : SetColor(id, input)
  \/ \E id \in DOMAIN lights :
       \E hueInfo \in (IF lights[id].isLight THEN LightInfos ELSE GroupInfos)
                         \cup Malformed \cup echoes(id) :
         UpdateInfo(id, hueInfo)
  \/ \E id \in DOMAIN lights : GetStateMessage(id)

SpecLight == InitLight /\ [][NextLight]_vars

\* ----------------------------------------------------------------- the server
\* The LightServer of part_000 with the light nodes of red/hue-node.js.
\* emitted holds what the server emits in a step ('warning', 'error',
\* 'light-new') and its calls of the bridge api; delivered holds the
\* messages handed to the nodes' lightMessageHandler in a step.
Nodes == {"n1", "n2"}

\* the lightID a node is configured with
nodeLightID(node) == "light1"

\* the bridge's group 0 (all lights), which processItems skips
GroupZero == HueInfo("0", "All", "LightGroup", TRUE, DimOn)

PollLightInfos ==
  { HueInfo("1", "Lamp", "Extended color light", TRUE, ColourOn),
    HueInfo("1", "Desk", "Dimmable light", TRUE, DimAway),
    HueInfo("1", "Lamp", "Dimmable light", FALSE, DimOn) }

PollGroupInfos ==
  { HueInfo("1", "Room", "LightGroup", TRUE, TempOn),
    HueInfo("1", "Room", "LightGroup", FALSE, DimOff) }

\* a second light, which the bridge lists without state, before light 1
LightTwo == HueInfo("2", "Shelf", "Dimmable light", FALSE, DimOn)

\* what hueApi.lights() and hueApi.groups() can answer with
LightListings == {<<>>} \cup { <<hueInfo>> : hueInfo \in PollLightInfos }

\* light 2 without state, followed by light 1
LightPairs == { <<LightTwo, hueInfo>> : hueInfo \in PollLightInfos }

GroupListings ==
  {<<>>, <<GroupZero>>} \cup { <<GroupZero, hueInfo>> : hueInfo \in PollGroupInfos }

ServerCommands ==
  { Boolean(TRUE), String("test"), Obj([Empty EXCEPT !.bri = 50]) }

\* a callback deferred with process.nextTick (part_000:289, 319)
Deferred(cb, lightID, message) == [cb |-> cb, lightID |-> lightID, message |-> message]

\* a message handed to a node
Delivery(node, event, message) == [node |-> node, event |-> event, message |-> message]

\* a poll whose answers are outstanding (part_000:205-220)
Poll(stage, callback, lightsInfo) ==
  [stage |-> stage, callback |-> callback, lightsInfo |-> lightsInfo]

\* what the server does with the events of one of its lights
\* (part_000:260-279, 309-322): warnings are passed on, sendToLight calls
\* the bridge api, change and update defer a message to the light handler
routeEmitted(light, events) ==
  LET route(e) ==
        IF e.ev = "sendToLight"
        THEN Event(IF light.isLight THEN "hueApi.setLightState"
                   ELSE "hueApi.setGroupLightState", e.id, e.intent)
        ELSE e
  IN  [i \in 1..Len(SelectSeq(events, LAMBDA e : e.ev \in {"warning", "sendToLight"})) |->
         route(SelectSeq(events, LAMBDA e : e.ev \in {"warning", "sendToLight"})[i])]

\* statusUpdateLight for the change and update events of a light, taken
\* after the light changed (part_000:309-322)
routeDeferred(handlers, light, events) ==
  IF light.id \notin handlers THEN <<>>
  ELSE LET evs == SelectSeq(events, LAMBDA e : e.ev \in {"change", "update"})
       IN  [i \in 1..Len(evs) |->
              Deferred("update", light.id, getStateMessage(light, evs[i].ev))]

\* the lights with lightID attached (part_000:282)
attach(ls, lightID, light) ==
  [id \in DOMAIN ls \cup {lightID} |-> IF id = lightID THEN light ELSE ls[id]]

\* One item of processItems (part_000:175-201) applied to acc, the lights,
\* deferred callbacks and emitted events so far.
processItem(acc, hueInfo, isLight, handlers, t) ==
  LET lightID == createLightID(hueInfo, isLight)
      error   == Event("error", lightID, NoIntent)
      polled(processed) ==
        [acc.lastInfo EXCEPT ![lightID] = <<Polled(hueInfo, processed)>>]
  IN  IF ~isLight /\ hueInfo.id = "0" THEN acc
      ELSE IF lightID \notin DOMAIN acc.lights
      THEN \* newLight (part_000:254-300)
           IF LightItemThrows(hueInfo, isLight)
           THEN [acc EXCEPT !.emitted = Append(@, error),
                            !.lastInfo = polled(FALSE)]
           ELSE LET light == LightItem(lightID, hueInfo, isLight) IN
                [acc EXCEPT
                   !.lights = attach(@, lightID, light),
                   !.nextTick = Append(@, Deferred("new", lightID,
                                                   getStateMessage(light, "new"))),
                   !.lastInfo = polled(TRUE)]
      ELSE \* updateInfo of the known light
           LET light == acc.lights[lightID] IN
           IF updateInfoThrows(light, hueInfo, t)
           THEN [acc EXCEPT !.emitted = Append(@, error),
                            !.lastInfo = polled(FALSE)]
           ELSE LET after == updateInfo(light, hueInfo, t) IN
                [acc EXCEPT
                   !.lights = [@ EXCEPT ![lightID] = after],
                   !.nextTick = @ \o routeDeferred(handlers, after,
                                                   updateInfoEvents(light, hueInfo, t)),
                   !.lastInfo = polled(~updateInfoIgnored(light, t))]

\* A variant of processItems that gives up the listing at the first item
\* that fails; ItemFailureContained fails against it.
processItemsAborting(acc, list, isLight, handlers, t) ==
  LET RECURSIVE each(_, _)
      each(a, l) ==
        IF l = <<>> THEN a
        ELSE LET b == processItem(a, Head(l), isLight, handlers, t)
             IN  IF Len(b.emitted) > Len(a.emitted) THEN b ELSE each(b, Tail(l))
  IN  each(acc, list)

RECURSIVE processItems(_, _, _, _, _)
\* processItems(list, isLight) (part_000:174-202)
processItems(acc, list, isLight, handlers, t) ==
  IF list = <<>> THEN acc
  ELSE processItems(processItem(acc, Head(list), isLight, handlers, t),
                    Tail(list), isLight, handlers, t)

Quiet == nextTick = <<>>

Init ==
  /\ now = 1
  /\ lights = <<>>
  /\ emitted = <<>>
  /\ ret = Ret("none")
  /\ step = Step("new", "", Undefined, NoInfo)
  /\ sent = <<>>
  /\ ServerInit

\* process.uptime() grows between two callbacks
Tick ==
  /\ Quiet
  /\ now < MaxTime
  /\ now' = now + 1
  /\ emitted' = <<>>
  /\ delivered' = <<>>
  /\ ret' = Ret("none")
  /\ step' = Step("tick", "", Undefined, NoInfo)
  /\ UNCHANGED <<lights, lightIDHandler, listeners, lightPollInterval, inited, config,
                 polls, nextTick, lastInfo, sent>>

\* init(callback): the first poll is requested (part_000:139-143)
init ==
  /\ Quiet
  /\ ~inited
  /\ inited' = TRUE
  /\ polls' = Append(polls, Poll("lights", "init", <<>>))
  /\ emitted' = <<>>
  /\ delivered' = <<>>
  /\ ret' = Ret("none")
  /\ step' = Step("init", "", Undefined, NoInfo)
  /\ UNCHANGED <<now, lights, lightIDHandler, listeners, lightPollInterval, nextTick,
                 lastInfo, config, sent>>

\* the interval timer fires: pollChanges(ignorePollResult) (part_000:156).
\* The code starts the poll whatever is outstanding; max caps the number of
\* outstanding polls of the model.
pollChangesUpTo(max) ==
  /\ Quiet
  /\ lightPollInterval
  /\ Len(polls) < max
  /\ polls' = Append(polls, Poll("lights", "ignore", <<>>))
  /\ emitted' = <<>>
  /\ delivered' = <<>>
  /\ ret' = Ret("none")
  /\ step' = Step("pollChanges", "", Undefined, NoInfo)
  /\ UNCHANGED <<now, lights, lightIDHandler, listeners, lightPollInterval, inited, config,
                 nextTick, lastInfo, sent>>

\* the timer's poll where the polls of the server follow one another
pollChanges == pollChangesUpTo(MaxPolls)

\* the timer's poll where the bridge may answer later than the next tick
pollChangesOverlap == pollChangesUpTo(MaxOverlap)

remove(seq, i) == SubSeq(seq, 1, i - 1) \o SubSeq(seq, i + 1, Len(seq))

\* the last step ended the poll by calling its callback
StepDone(op, poll) ==
  [Step(op, "", Undefined, NoInfo) EXCEPT
     !.lightsInfo = poll.lightsInfo, !.callback = poll.callback]

\* A variant of the poll's callback that warns of every failed poll;
\* FailedFirstPollWarns fails against it.
pollDoneWarning(i, err, acc) ==
  /\ polls' = remove(polls, i)
  /\ lights' = acc.lights
  /\ nextTick' = acc.nextTick
  /\ lastInfo' = acc.lastInfo
  /\ lightPollInterval' = (polls[i].callback = "init" \/ lightPollInterval)
  /\ emitted' = IF err THEN Append(acc.emitted, Event("warning", "", NoIntent))
                ELSE acc.emitted

\* A variant of the poll's callback that arms the timer only after a first
\* poll without error; FirstPollArmsTimer fails against it.
pollDoneStrict(i, err, acc) ==
  /\ polls' = remove(polls, i)
  /\ lights' = acc.lights
  /\ nextTick' = acc.nextTick
  /\ lastInfo' = acc.lastInfo
  /\ lightPollInterval' = ((polls[i].callback = "init" /\ ~err) \/ lightPollInterval)
  /\ emitted' = IF err /\ polls[i].callback = "init"
                THEN Append(acc.emitted, Event("warning", "", NoIntent))
                ELSE acc.emitted

\* A variant of the poll's callback that forgets every light when the
\* bridge lists no light; PollKeepsLights fails against it.
pollDoneForgetting(i, err, acc) ==
  /\ polls' = remove(polls, i)
  /\ lights' = IF ~err /\ polls[i].lightsInfo = <<>> THEN <<>> ELSE acc.lights
  /\ nextTick' = acc.nextTick
  /\ lastInfo' = acc.lastInfo
  /\ IF polls[i].callback = "init"
     THEN /\ lightPollInterval' = TRUE
          /\ emitted' = IF err THEN Append(acc.emitted, Event("warning", "", NoIntent))
                        ELSE acc.emitted
     ELSE /\ emitted' = acc.emitted
          /\ UNCHANGED lightPollInterval

\* A variant of the poll's callback that gives up polling after a failed
\* poll; FailedPollChangesNothing fails against it.
pollDoneClearing(i, err, acc) ==
  /\ polls' = remove(polls, i)
  /\ lights' = acc.lights
  /\ nextTick' = acc.nextTick
  /\ lastInfo' = acc.lastInfo
  /\ lightPollInterval' = IF err THEN FALSE
                          ELSE (polls[i].callback = "init" \/ lightPollInterval)
  /\ emitted' = IF err /\ polls[i].callback = "init"
                THEN Append(acc.emitted, Event("warning", "", NoIntent))
                ELSE acc.emitted

\* the callback of a poll is called with err (part_000:143-158): init's
\* callback warns of the error and arms the interval timer, the timer's
\* callback ignores the result
pollDone(i, err, acc) ==
  /\ polls' = remove(polls, i)
  /\ lights' = acc.lights
  /\ nextTick' = acc.nextTick
  /\ lastInfo' = acc.lastInfo
  /\ IF polls[i].callback = "init"
     THEN /\ lightPollInterval' = TRUE
          /\ emitted' = IF err THEN Append(acc.emitted, Event("warning", "", NoIntent))
                        ELSE acc.emitted
     ELSE /\ emitted' = acc.emitted
          /\ UNCHANGED lightPollInterval

\* the lights, deferred callbacks and history before a listing is processed
current ==
  [lights |-> lights, nextTick |-> nextTick, emitted |-> <<>>, lastInfo |-> lastInfo]

\* hueApi.lights answers (part_000:205-210)
lightsAnswer(i, err, lightsInfo) ==
  /\ Quiet
  /\ i \in 1..Len(polls)
  /\ polls[i].stage = "lights"
  /\ IF err
     THEN pollDone(i, TRUE, current)
     ELSE /\ polls' = [polls EXCEPT ![i] = Poll("groups", @.callback, lightsInfo)]
          /\ emitted' = <<>>
          /\ UNCHANGED <<lights, nextTick, lightPollInterval, lastInfo>>
  /\ delivered' = <<>>
  /\ ret' = Ret("none")
  /\ step' = IF err THEN StepDone("lightsError", polls[i])
              ELSE Step("lightsAnswer", "", Undefined, NoInfo)
  /\ UNCHANGED <<now, lightIDHandler, listeners, inited, config, sent>>

\* hueApi.groups answers (part_000:210-219)
groupsAnswer(i, err, groupInfo) ==
  /\ Quiet
  /\ i \in 1..Len(polls)
  /\ polls[i].stage = "groups"
  /\ IF err
     THEN pollDone(i, TRUE, current)
     ELSE LET acc1 == processItems(current, polls[i].lightsInfo, TRUE, lightIDHandler,
                                   now)
              acc2 == processItems(acc1, groupInfo, FALSE, lightIDHandler, now)
          IN  pollDone(i, FALSE, acc2)
  /\ delivered' = <<>>
  /\ ret' = Ret("none")
  /\ step' = IF err THEN StepDone("groupsError", polls[i])
              ELSE [StepPoll(polls[i].lightsInfo, groupInfo, lastInfo) EXCEPT
                      !.callback = polls[i].callback]
  /\ UNCHANGED <<now, lightIDHandler, listeners, inited, config, sent>>

\* stop() (part_000:226-245)
stop ==
  /\ Quiet
  /\ lightPollInterval' = FALSE
  /\ lights' = <<>>
  /\ emitted' = <<>>
  /\ delivered' = <<>>
  /\ ret' = Ret("none")
  /\ lastInfo' = NothingPolled
  /\ step' = Step("stop", "", Undefined, NoInfo)
  /\ UNCHANGED <<now, lightIDHandler, listeners, inited, config, polls, nextTick, sent>>

\* the listeners of the light handler of lightID (hue-node.js:76-77)
handlerListeners(lightID) == { node \in listeners : nodeLightID(node) = lightID }

\* A variant of emit that calls one listener only; UpdateDelivered fails
\* against it.
emitToListenersFirst(nodes, event, message) ==
  IF nodes = {} THEN <<>>
  ELSE <<Delivery(CHOOSE n \in nodes : TRUE, event, message)>>

\* A variant of handler.emit that calls every listener twice;
\* NewOnRegistration fails against it.
emitToListenersTwice(nodes, event, message) ==
  LET RECURSIVE each(_)
      each(ns) == IF ns = {} THEN <<>>
                  ELSE LET node == CHOOSE n \in ns : TRUE
                       IN  <<Delivery(node, event, message),
                             Delivery(node, event, message)>> \o each(ns \ {node})
  IN  each(nodes)

\* handler.emit(event, message): every listener is called once, in the
\* order the listeners were added; the nodes are taken in a fixed order
emitToListeners(nodes, event, message) ==
  LET RECURSIVE each(_)
      each(ns) == IF ns = {} THEN <<>>
                  ELSE LET node == CHOOSE n \in ns : TRUE
                       IN  <<Delivery(node, event, message)>> \o each(ns \ {node})
  IN  each(nodes)

\* the first deferred callback runs (part_000:289-299, 319-321)
runNextTick ==
  /\ nextTick # <<>>
  /\ LET d == Head(nextTick) IN
       IF d.cb = "new"
       THEN /\ delivered' = IF d.lightID \in lightIDHandler
                            THEN emitToListeners(handlerListeners(d.lightID), "new",
                                                 d.message)
                            ELSE <<>>
            /\ emitted' = <<Event("light-new", d.lightID, NoIntent)>>
       ELSE /\ delivered' = emitToListeners(handlerListeners(d.lightID), "update",
                                            d.message)
            /\ emitted' = <<>>
  /\ nextTick' = Tail(nextTick)
  /\ ret' = Ret("none")
  /\ step' = Step("nextTick", Head(nextTick).lightID, Undefined, NoInfo)
  /\ UNCHANGED <<now, lights, lightIDHandler, listeners, lightPollInterval, inited, config,
                 polls, lastInfo, sent>>

\* A variant of getLightState that answers false for a light it does not
\* know; UnknownIdSentinel fails against it.
getLightStateResultFalse(lightID) ==
  IF lightID \notin DOMAIN lights THEN Ret("false")
  ELSE RetMessage(getStateMessage(lights[lightID], ""))

\* getLightState(lightID) (part_000:367-373)
getLightStateResult(lightID) ==
  IF lightID \notin DOMAIN lights THEN Ret("null")
  ELSE RetMessage(getStateMessage(lights[lightID], ""))

\* a light node is created (hue-node.js:8-98): it gets the light handler,
\* is handed the current state as 'new' when the light is known, and
\* listens to the handler
LightNode(node) ==
  /\ Quiet
  /\ node \notin listeners
  /\ lightIDHandler' = lightIDHandler \cup {nodeLightID(node)}
  /\ delivered' = IF getLightStateResult(nodeLightID(node)).v = "message"
                  THEN <<Delivery(node, "new",
                                  [getLightStateResult(nodeLightID(node)).msg
                                     EXCEPT !.event = "new"])>>
                  ELSE <<>>
  /\ listeners' = listeners \cup {node}
  /\ emitted' = <<>>
  /\ ret' = Ret("none")
  /\ step' = Step("LightNode", nodeLightID(node), Undefined, NoInfo)
  /\ UNCHANGED <<now, lights, lightPollInterval, inited, config, polls, nextTick, lastInfo,
                 sent>>

\* the node closes and removes its listeners (hue-node.js:80-85)
close(node) ==
  /\ Quiet
  /\ node \in listeners
  /\ listeners' = listeners \ {node}
  /\ emitted' = <<>>
  /\ delivered' = <<>>
  /\ ret' = Ret("none")
  /\ step' = Step("close", nodeLightID(node), Undefined, NoInfo)
  /\ UNCHANGED <<now, lights, lightIDHandler, lightPollInterval, inited, config, polls,
                 nextTick, lastInfo, sent>>

\* A variant of setLightState whose 'change' reaches the listeners inside
\* the call; NotificationsDeferred fails against it.
setLightStateSynchronous(lightID, value) ==
  /\ Quiet
  /\ lightID \in lightIDHandler
  /\ IF lightID \notin DOMAIN lights
     THEN /\ ret' = Ret("false")
          /\ emitted' = <<>>
          /\ delivered' = <<>>
          /\ UNCHANGED lights
     ELSE \E lib \in libraryAnswers(lights[lightID], value) :
            LET light  == lights[lightID]
                after  == setColor(light, value, now, lib)
                events == setColorEvents(light, value, now, lib)
                queue  == routeDeferred(lightIDHandler, after, events)
            IN  /\ lights' = [lights EXCEPT ![lightID] = after]
                /\ emitted' = routeEmitted(light, events)
                /\ delivered' = IF queue = <<>> THEN <<>>
                                ELSE emitToListeners(handlerListeners(lightID),
                                                     "update", queue[1].message)
                /\ ret' = IF setColorThrows(light, value) THEN Ret("threw")
                          ELSE Ret("true")
  /\ lastInfo' = [lastInfo EXCEPT ![lightID] = <<>>]
  /\ step' = Step("setLightState", lightID, value, NoInfo)
  /\ UNCHANGED <<now, lightIDHandler, listeners, lightPollInterval, inited, config, polls,
                 nextTick, sent>>

\* a node calls setLightState(value) of its light handler
\* (hue-node.js:91, part_000:38-40, 350-359)
setLightState(lightID, value) ==
  /\ Quiet
  /\ lightID \in lightIDHandler
  /\ IF lightID \notin DOMAIN lights
     THEN /\ ret' = Ret("false")
          /\ emitted' = <<>>
          /\ UNCHANGED <<lights, nextTick>>
     ELSE \E lib \in libraryAnswers(lights[lightID], value) :
            LET light  == lights[lightID]
                after  == setColor(light, value, now, lib)
                events == setColorEvents(light, value, now, lib)
            IN  /\ lights' = [lights EXCEPT ![lightID] = after]
                /\ emitted' = routeEmitted(light, events)
                /\ nextTick' = nextTick \o routeDeferred(lightIDHandler, after, events)
                /\ ret' = IF setColorThrows(light, value) THEN Ret("threw")
                          ELSE Ret("true")
  /\ delivered' = <<>>
  /\ lastInfo' = [lastInfo EXCEPT ![lightID] = <<>>]
  /\ step' = Step("setLightState", lightID, value, NoInfo)
  /\ UNCHANGED <<now, lightIDHandler, listeners, lightPollInterval, inited, config, polls, sent>>

\* getLightState() of a light handler is called (part_000:48-50, 367-373)
getLightState(lightID) ==
  /\ Quiet
  /\ lightID \in lightIDHandler
  /\ ret' = getLightStateResult(lightID)
  /\ emitted' = <<>>
  /\ delivered' = <<>>
  /\ step' = Step("getLightState", lightID, Undefined, NoInfo)
  /\ UNCHANGED <<now, lights, lightIDHandler, listeners, lightPollInterval, inited, config,
                 polls, nextTick, lastInfo, sent>>

Next ==
  \/ Tick
  \/ init
  \/ pollChanges
  \/ \E i \in 1..Len(polls) : \E err \in BOOLEAN : \E lightsInfo \in LightListings :
       lightsAnswer(i, err, lightsInfo)
  \/ \E i \in 1..Len(polls) : \E err \in BOOLEAN : \E groupInfo \in GroupListings :
       groupsAnswer(i, err, groupInfo)
  \/ stop
  \/ runNextTick
  \/ \E node \in Nodes : LightNode(node)
  \/ \E node \in Nodes : close(node)
  \/ \E lightID \in LightIDs : \E value \in ServerCommands : setLightState(lightID, value)
  \/ \E lightID \in LightIDs : getLightState(lightID)

Spec == Init /\ [][Next]_vars

\* The server alone, polling a bridge that may take longer than the
\* interval to answer.
NextOverlap ==
  \/ Tick
  \/ init
  \/ pollChangesOverlap
  \/ \E i \in 1..Len(polls) : \E err \in BOOLEAN : \E lightsInfo \in LightListings :
       lightsAnswer(i, err, lightsInfo)
  \/ \E i \in 1..Len(polls) : \E err \in BOOLEAN : \E groupInfo \in GroupListings :
       groupsAnswer(i, err, groupInfo)
  \/ stop
  \/ runNextTick

\* the intervals the server is configured with
Intervals ==
  { IntervalNumber(0), IntervalNumber(499), IntervalNumber(500), IntervalNumber(2000),
    IntervalNaN, IntervalUndefined,
    IntervalString(<<"6", "0">>), IntervalString(<<"4", "9", "9">>),
    IntervalString(<<"5", "0", "0">>), IntervalString(<<" ", "7", "s">>),
    IntervalString(<<"-", "1">>), IntervalString(<<"a", "b", "c">>) }

InitOverlap ==
  /\ now = 1
  /\ lights = <<>>
  /\ emitted = <<>>
  /\ ret = Ret("none")
  /\ step = Step("new", "", Undefined, NoInfo)
  /\ sent = <<>>
  /\ \E configured \in Intervals : LightServer(configured)

SpecOverlap == InitOverlap /\ [][NextOverlap]_vars

\* The server alone, polling a bridge whose light listing can hold two
\* items, the first of them without state.
NextListing ==
  \/ Tick
  \/ init
  \/ pollChanges
  \/ \E i \in 1..Len(polls) : \E err \in BOOLEAN :
       \E lightsInfo \in LightListings \cup LightPairs :
         lightsAnswer(i, err, lightsInfo)
  \/ \E i \in 1..Len(polls) : \E err \in BOOLEAN : \E groupInfo \in GroupListings :
       groupsAnswer(i, err, groupInfo)
  \/ stop
  \/ runNextTick

SpecListing == Init /\ [][NextListing]_vars

\* ------------------------------------------------------------- properties
\* The properties read the call of the last step from step, its outcome
\* from ret, emitted and delivered, and the lights before and after it.

\* the last call was setColor and it went through to its end
Accepted(st, r, em) ==
  /\ st.op = "setColor"
  /\ r.v = "none"
  /\ \E i \in DOMAIN em : em[i].ev = "change"

\* C1: a setColor that is accepted puts the light's echo deadline after the
\* current uptime, and an updateInfo that arrives before a light's deadline
\* is discarded whatever it carries: the light (state, capability,
\* name/type, reachability, deadline) stays as it was, nothing is emitted
\* and nothing is thrown.
EchoSuppression ==
  [][ /\ Accepted(step', ret', emitted') =>
           lights'[step'.id].modified >= now + EchoSeconds
      /\ (step'.op = "updateInfo" /\ now < lights[step'.id].modified) =>
           /\ lights' = lights
           /\ emitted' = <<>>
           /\ ret'.v = "none" ]_vars

\* an updateInfo was discarded before the deadline although its snapshot
\* differs from the light in state, name and reachability
EchoSuppressionWitness ==
  /\ step.op = "updateInfo"
  /\ now < lights[step.id].modified
  /\ lights[step.id].state # convertHueState(step.hueInfo, lights[step.id].isLight)
  /\ lights[step.id].info.name # step.hueInfo.name
  /\ lights[step.id].info.reachable # step.hueInfo.hs.reachable
  /\ emitted = <<>>

\* C5: no updateInfo emits 'sendToLight', whether it changes the state or
\* not: whenever a 'sendToLight' is emitted the call was setColor.
ReconcileSendsNothing ==
  \A i \in DOMAIN emitted : emitted[i].ev = "sendToLight" => step.op = "setColor"

\* an updateInfo replaced the state and emitted 'update' alone
ReconcileSendsNothingWitness ==
  /\ step.op = "updateInfo"
  /\ lights[step.id].state = convertHueState(step.hueInfo, lights[step.id].isLight)
  /\ emitted = <<Event("update", step.id, NoIntent)>>

\* C9: a command object without a boolean on leaves the light's on as it
\* was before the command.
OnPreserved ==
  [][ (step'.op = "setColor" /\ step'.input.type = "object"
         /\ step'.input.o.on = "undef") =>
        lights'[step'.id].state.on = lights[step'.id].state.on ]_vars

\* a brightness command without on was accepted by a light that is off
OnPreservedWitness ==
  /\ Accepted(step, ret, emitted)
  /\ step.input.type = "object"
  /\ step.input.o.on = "undef"
  /\ step.input.o.bri # NA
  /\ ~lights[step.id].state.on

\* a string other than 'on' and 'off', or a value that is no object, boolean
\* or number (null is a value but no object)
Unrecognised(input) ==
  \/ input.type = "string" /\ input.s # "on" /\ input.s # "off"
  \/ input.type \notin {"string", "object", "boolean", "number"}

\* C6: a command of an unrecognised shape is rejected: setColor emits one
\* warning and nothing else, returns without throwing, and leaves the
\* light's state and echo deadline as they were.
UnrecognisedRejected ==
  [][ (step'.op = "setColor" /\ Unrecognised(step'.input)) =>
        /\ emitted' = <<Event("warning", step'.id, NoIntent)>>
        /\ ret'.v = "none"
        /\ lights' = lights ]_vars

\* setColor(null) threw and emitted no warning
UnrecognisedNullThrows ==
  /\ step.op = "setColor"
  /\ step.input.type = "null"
  /\ ret.v = "threw"
  /\ emitted = <<>>

\* a percentage in device units: Math.round(p * 255 / 100) held in 0..255
DeviceUnits(p) ==
  LET q == (2 * p * 255 + 100) \div 200
  IN  IF q < 0 THEN 0 ELSE IF q > 255 THEN 255 ELSE q

\* a boolean, 'on', 'off' or a number
Shorthand(input) ==
  \/ input.type \in {"boolean", "number"}
  \/ input.type = "string" /\ input.s \in {"on", "off"}

\* C8: a shorthand command is accepted without warning or error; true and
\* 'on' leave the light on, false and 'off' leave it off, and a number n
\* leaves it on with the brightness of n percent in device units.
ShorthandsAccepted ==
  [][ (step'.op = "setColor" /\ Shorthand(step'.input)) =>
        LET input == step'.input
            after == lights'[step'.id].state
        IN  /\ Accepted(step', ret', emitted')
            /\ \A i \in DOMAIN emitted' : emitted'[i].ev # "warning"
            /\ (input.type = "boolean" /\ input.b) => after.on
            /\ (input.type = "string" /\ input.s = "on") => after.on
            /\ (input.type = "boolean" /\ ~input.b) => ~after.on
            /\ (input.type = "string" /\ input.s = "off") => ~after.on
            /\ input.type = "number" =>
                 after.on /\ after.bri = DeviceUnits(input.n) ]_vars

\* setColor(true) threw on a light that is off and reports xy, and the
\* light is still off
ShorthandThrows ==
  /\ step.op = "setColor"
  /\ step.input.type = "boolean"
  /\ step.input.b
  /\ ret.v = "threw"
  /\ emitted = <<>>
  /\ lights[step.id].isLight
  /\ "XY" \in lights[step.id].info.capability
  /\ ~lights[step.id].state.on

\* the bri of a command object, else its brightness, else NA
BrightnessField(o) == IF o.bri # NA THEN o.bri ELSE o.brightness

\* C10: after an accepted command object with bri or brightness the
\* light's stored brightness is that field in device units, whichever
\* colour path the command took and whether the light is on or off.
BrightnessStored ==
  [][ (Accepted(step', ret', emitted') /\ step'.input.type = "object"
         /\ BrightnessField(step'.input.o) # NA) =>
        lights'[step'.id].state.bri = DeviceUnits(BrightnessField(step'.input.o))
    ]_vars

\* an accepted command with xy and a brightness of 150 percent left the
\* light on with a stored brightness above the device's range
BrightnessUnclamped ==
  /\ Accepted(step, ret, emitted)
  /\ step.input.type = "object"
  /\ Len(step.input.o.xy) = 2
  /\ step.input.o.brightness = 150
  /\ lights[step.id].state.on
  /\ lights[step.id].state.bri > 255

\* the items of the two listings the last poll processed, each with the
\* lightID it stands for; group 0 is not among them
Returned(st) ==
  { [id |-> createLightID(st.lightsInfo[k], TRUE), hueInfo |-> st.lightsInfo[k],
     isLight |-> TRUE] : k \in DOMAIN st.lightsInfo }
  \cup
  { [id |-> createLightID(st.groupInfo[k], FALSE), hueInfo |-> st.groupInfo[k],
     isLight |-> FALSE] : k \in { j \in DOMAIN st.groupInfo : st.groupInfo[j].id # "0" } }

\* the deferred callbacks of kind cb queued for lightID
Queued(queue, lightID, cb) ==
  { i \in DOMAIN queue : queue[i].lightID = lightID /\ queue[i].cb = cb }

\* the item r can be parsed and its state differs from / equals the state
\* the light r.id has
Differs(r) ==
  /\ ~convertHueStateThrows(r.hueInfo, r.isLight)
  /\ convertHueState(r.hueInfo, r.isLight) # lights[r.id].state

Equals(r) ==
  /\ ~convertHueStateThrows(r.hueInfo, r.isLight)
  /\ convertHueState(r.hueInfo, r.isLight) = lights[r.id].state

\* C2: when a poll holds, for a known light whose echo deadline has
\* elapsed, an item whose parsed state differs from the light's state, the
\* state is replaced by the parsed one and, if the light has a handler,
\* exactly one callback is deferred for it, carrying the 'update' message of
\* the new state; and when a deferred update callback runs, every node
\* listening for the light is handed that message exactly once.
UpdateDelivered ==
  [][ /\ step'.op = "processItems" =>
           \A r \in Returned(step') :
             (r.id \in DOMAIN lights /\ now > lights[r.id].modified /\ Differs(r)) =>
               /\ lights'[r.id].state = convertHueState(r.hueInfo, r.isLight)
               /\ Cardinality(Queued(nextTick', r.id, "update")) =
                    IF r.id \in lightIDHandler THEN 1 ELSE 0
               /\ Queued(nextTick', r.id, "new") = {}
               /\ \A i \in Queued(nextTick', r.id, "update") :
                    /\ nextTick'[i].message.event = "update"
                    /\ nextTick'[i].message.state = lights'[r.id].state
      /\ (step'.op = "nextTick" /\ Head(nextTick).cb = "update") =>
           /\ \A node \in listeners :
                nodeLightID(node) = Head(nextTick).lightID =>
                  Cardinality({ i \in DOMAIN delivered' : delivered'[i].node = node }) = 1
           /\ \A i \in DOMAIN delivered' :
                /\ delivered'[i].node \in listeners
                /\ nodeLightID(delivered'[i].node) = Head(nextTick).lightID
                /\ delivered'[i].event = "update"
                /\ delivered'[i].message = Head(nextTick).message ]_vars

\* the 'update' message of a poll was handed to both nodes of the light
UpdateDeliveredWitness ==
  /\ step.op = "nextTick"
  /\ Cardinality(listeners) = 2
  /\ Len(delivered) = 2
  /\ \A i \in DOMAIN delivered :
       delivered[i].event = "update" /\ delivered[i].message.event = "update"

NewOnce ==
  [][ /\ step'.op = "processItems" =>
           \A r \in Returned(step') :
             /\ r.id \notin DOMAIN lights =>
                  /\ r.id \in DOMAIN lights'
                  /\ Cardinality(Queued(nextTick', r.id, "new")) = 1
             /\ r.id \in DOMAIN lights => Queued(nextTick', r.id, "new") = {}
      /\ step'.op # "stop" =>
           \A id \in DOMAIN lights : id \in DOMAIN lights' ]_vars

\* a poll held a group without colormode for the unknown group1: the
\* server emitted 'error', and group1 is still unknown with no 'new'
\* deferred for it
NewLightThrows ==
  /\ step.op = "processItems"
  /\ \E r \in Returned(step) :
       /\ r.id = "group1"
       /\ step.previous[r.id] = <<>>
       /\ r.hueInfo.hs.colormode = "undef"
       /\ r.id \notin DOMAIN lights
       /\ Queued(nextTick, r.id, "new") = {}
       /\ \E i \in DOMAIN emitted : emitted[i] = Event("error", r.id, NoIntent)

\* C7: for a lightID that is not known setLightState returns false and
\* getLightState returns null, and the call creates and changes no light,
\* defers no callback, emits nothing and hands nothing to a node.
UnknownIdSentinel ==
  [][ (step'.op \in {"setLightState", "getLightState"}
         /\ step'.id \notin DOMAIN lights) =>
        /\ ret' = Ret(IF step'.op = "setLightState" THEN "false" ELSE "null")
        /\ lights' = lights
        /\ nextTick' = nextTick
        /\ emitted' = <<>>
        /\ delivered' = <<>> ]_vars

\* setLightState returned false for light1 before any poll found it
UnknownIdSentinelWitness ==
  /\ step.op = "setLightState"
  /\ step.id \notin DOMAIN lights
  /\ step.id \in lightIDHandler
  /\ ret = Ret("false")

\* a number, or a command object with bri or brightness and no colour
\* field (on and duration may be there)
BrightnessOnly(input) ==
  \/ input.type = "number"
  \/ /\ input.type = "object"
     /\ input.o.bri # NA \/ input.o.brightness # NA
     /\ input.o.xy = <<>>
     /\ input.o.ct = NA /\ input.o.mirek = NA /\ input.o.mired = NA
     /\ input.o.kelvin = NA

\* C11: a command that carries only brightness (with or without on and
\* duration) leaves the light's colormode, xy, hue, sat and ct as they were.
BrightnessLeavesColour ==
  [][ (step'.op = "setColor" /\ BrightnessOnly(step'.input)) =>
        LET before == lights[step'.id].state
            after  == lights'[step'.id].state
        IN  /\ after.colormode = before.colormode
            /\ after.xy = before.xy
            /\ after.hue = before.hue
            /\ after.sat = before.sat
            /\ after.ct = before.ct ]_vars

\* a brightness command was accepted by a colour temperature light in
\* colormode ct and stored its brightness
BrightnessLeavesColourWitness ==
  /\ Accepted(step, ret, emitted)
  /\ step.input.type = "object"
  /\ BrightnessOnly(step.input)
  /\ lights[step.id].state.colormode = "ct"
  /\ lights[step.id].state.ct # NA
  /\ lights[step.id].state.on
  /\ lights[step.id].state.bri = DeviceUnits(BrightnessField(step.input.o))

\* the last call was an accepted command object with an xy pair
AcceptedXY(st, r, em) ==
  Accepted(st, r, em) /\ st.input.type = "object" /\ Len(st.input.o.xy) = 2

\* C12: an accepted xy command on a light whose capabilities hold HS and
\* not XY leaves the colormode at "hs", the mode the bridge reports for
\* hue and saturation, with hue and sat set and no xy in the state.
XyTranscoded ==
  [][ (/\ AcceptedXY(step', ret', emitted')
       /\ "HS" \in lights[step'.id].info.capability
       /\ "XY" \notin lights[step'.id].info.capability) =>
        LET after == lights'[step'.id].state
        IN  /\ after.colormode = "hs"
            /\ after.hue # NA
            /\ after.sat # NA
            /\ after.xy = <<>> ]_vars

\* an xy command was accepted by a light with HS and without XY, and the
\* colormode stored is "hsv"
XyTranscodedHsv ==
  /\ AcceptedXY(step, ret, emitted)
  /\ "HS" \in lights[step.id].info.capability
  /\ "XY" \notin lights[step.id].info.capability
  /\ lights[step.id].state.on
  /\ lights[step.id].state.colormode = "hsv"
  /\ lights[step.id].state.hue # NA
  /\ lights[step.id].state.xy = <<>>

\* the light state of the 'sendToLight' an accepted setColor emitted
Intent(em) == em[CHOOSE i \in DOMAIN em : em[i].ev = "sendToLight"].intent

\* a colour temperature is among the fields of the command object
CarriesTemp(o) == o.ct # NA \/ o.mirek # NA \/ o.mired # NA \/ o.kelvin # NA

\* C13: after an accepted colour command that leaves the light on, the
\* light state sent to the bridge carries hue and sat when the light has HS
\* and not XY, xy when the light has XY, and ct when the command took the
\* colour temperature path.
IntentNativeColour ==
  [][ (Accepted(step', ret', emitted') /\ step'.input.type = "object"
         /\ lights'[step'.id].state.on) =>
        LET caps   == lights[step'.id].info.capability
            o      == step'.input.o
            after  == lights'[step'.id].state
            intent == Intent(emitted')
        IN  /\ (Len(o.xy) = 2 /\ "XY" \in caps) =>
                 intent.xy = after.xy /\ intent.xy # <<>>
            /\ (Len(o.xy) = 2 /\ "HS" \in caps /\ "XY" \notin caps) =>
                 /\ intent.hue = after.hue /\ intent.hue # NA
                 /\ intent.sat = after.sat /\ intent.sat # NA
            /\ (Len(o.xy) # 2 /\ CarriesTemp(o) /\ "CT" \in caps) =>
                 intent.ct = after.ct /\ intent.ct # NA ]_vars

\* an xy command was accepted by a light with HS and without XY that is on,
\* and the light state sent carries no hue, sat, xy or ct
IntentWithoutColour ==
  /\ AcceptedXY(step, ret, emitted)
  /\ "HS" \in lights[step.id].info.capability
  /\ "XY" \notin lights[step.id].info.capability
  /\ lights[step.id].state.on
  /\ Intent(emitted).on
  /\ Intent(emitted).hue = NA
  /\ Intent(emitted).sat = NA
  /\ Intent(emitted).xy = <<>>
  /\ Intent(emitted).ct = NA

\* C14: an updateInfo outside the echo window whose snapshot differs from
\* the light in reachability alone, its parsed state being the light's
\* state, emits 'update'.
ReachabilityNotified ==
  [][ (/\ step'.op = "updateInfo"
       /\ lights[step'.id].isLight
       /\ now > lights[step'.id].modified
       /\ ~convertHueStateThrows(step'.hueInfo, TRUE)
       /\ convertHueState(step'.hueInfo, TRUE) = lights[step'.id].state
       /\ step'.hueInfo.hs.reachable # lights[step'.id].info.reachable) =>
        \E i \in DOMAIN emitted' : emitted'[i].ev = "update" ]_vars

\* an updateInfo outside the echo window took over a changed reachability,
\* the state being equal, and emitted nothing
ReachabilitySilent ==
  /\ step.op = "updateInfo"
  /\ step.before # <<>>
  /\ step.before[1].isLight
  /\ now > step.before[1].modified
  /\ step.before[1].state = lights[step.id].state
  /\ step.before[1].info.reachable # lights[step.id].info.reachable
  /\ lights[step.id].info.reachable = step.hueInfo.hs.reachable
  /\ emitted = <<>>
  /\ ret.v = "none"

\* C15: when hueApi.lights or hueApi.groups answers with an error, the
\* lights stay as they were (the known lightIDs and each light's state,
\* capability, info and echo deadline), nothing is deferred, also when the
\* light listing had arrived and only the groups failed, and an armed
\* interval timer stays armed.
FailedPollChangesNothing ==
  [][ step'.op \in {"lightsError", "groupsError"} =>
        /\ lights' = lights
        /\ nextTick' = nextTick
        /\ lightPollInterval => lightPollInterval' ]_vars

\* the groups failed in a poll of the armed timer whose light listing had
\* arrived with an item that differs from the known light1, outside its
\* echo window
FailedPollChangesNothingWitness ==
  /\ step.op = "groupsError"
  /\ step.lightsInfo # <<>>
  /\ lightPollInterval
  /\ "light1" \in DOMAIN lights
  /\ now > lights["light1"].modified
  /\ ~convertHueStateThrows(step.lightsInfo[1], TRUE)
  /\ convertHueState(step.lightsInfo[1], TRUE) # lights["light1"].state

\* the last step ended a poll with an error of one of its requests
PollFailed(st) == st.op \in {"lightsError", "groupsError"}

BusyTickDropped ==
  [][ (step'.op = "pollChanges" /\ polls # <<>>) => polls' = polls ]_vars

\* a tick started a second poll while the first was waiting for the bridge
BusyTickPolls ==
  /\ step.op = "pollChanges"
  /\ Len(polls) = 2
  /\ polls[1].stage = "lights"
  /\ polls[2].stage = "lights"

\* a configured interval that is a number, or a string of decimal digits
\* only, and its value
Numeric(configured) ==
  \/ configured.type = "number" /\ ~configured.nan
  \/ /\ configured.type = "string"
     /\ configured.chars # <<>>
     /\ \A i \in DOMAIN configured.chars : configured.chars[i] \in DOMAIN Digit

RECURSIVE Decimal(_)
Decimal(chars) ==
  IF chars = <<>> THEN 0
  ELSE 10 * Decimal(SubSeq(chars, 1, Len(chars) - 1)) + Digit[chars[Len(chars)]]

NumericValue(configured) ==
  IF configured.type = "number" THEN configured.n ELSE Decimal(configured.chars)

\* C19, in every state and so whenever the timer is armed: the interval
\* the server keeps is at least 500, and it is exactly 500 when the
\* configured interval is a number or a numeric string below 500.
IntervalFloor ==
  /\ config.interval >= MinInterval
  /\ (Numeric(config.configured) /\ NumericValue(config.configured) < MinInterval)
       => config.interval = MinInterval
  /\ (Numeric(config.configured) /\ NumericValue(config.configured) >= MinInterval)
       => config.interval = NumericValue(config.configured)

\* the timer is armed on a server configured with the string "60"
IntervalFloorWitness ==
  /\ lightPollInterval
  /\ config.configured = IntervalString(<<"6", "0">>)
  /\ config.interval = MinInterval

\* the duration of a command, when it is an object with a positive one
Duration(input) ==
  IF input.type = "object" /\ input.o.duration # NA /\ input.o.duration > 0
  THEN input.o.duration ELSE 0

\* C20, for every accepted setColor at uptime now: the light's deadline
\* becomes now + 2, plus the duration rounded up to whole seconds when the
\* command has a positive duration, whatever the deadline was before.
EchoDeadlineCeil ==
  [][ Accepted(step', ret', emitted') =>
        lights'[step'.id].modified =
          now + EchoSeconds + ((Duration(step'.input) + 999) \div 1000) ]_vars

\* C20, with the seconds the code adds: the light's deadline becomes
\* now + 2, plus Math.round(1 + duration/1000) when the command has a
\* positive duration, whatever the deadline was before.
EchoDeadlineRounded ==
  [][ Accepted(step', ret', emitted') =>
        lights'[step'.id].modified =
          now + EchoSeconds +
            (IF Duration(step'.input) > 0
             THEN (Duration(step'.input) + 1500) \div 1000 ELSE 0) ]_vars

\* a command with duration 500 was accepted and put the deadline 4 seconds
\* ahead, on a light whose deadline of an earlier command had not passed
EchoDeadlineRoundedWitness ==
  /\ Accepted(step, ret, emitted)
  /\ Duration(step.input) = 500
  /\ lights[step.id].modified = now + 4
  /\ step.before[1].modified > now

\* a command without duration took back the longer deadline of an earlier one
EchoDeadlineShortened ==
  /\ Accepted(step, ret, emitted)
  /\ Duration(step.input) = 0
  /\ lights[step.id].modified = now + EchoSeconds
  /\ step.before[1].modified > now + EchoSeconds

\* C21, for the step that follows stop(): whatever comes next, an answer of
\* the bridge to a poll started before stop() included, the timer stays
\* unarmed and no light exists.
StopIsFinal ==
  [][ step.op = "stop" => (~lightPollInterval' /\ lights' = <<>>) ]_vars

\* stop() was called while a poll was waiting for the bridge
StoppedWhilePolling ==
  /\ step.op = "stop"
  /\ polls # <<>>
  /\ ~lightPollInterval
  /\ lights = <<>>

\* the lightIDs of the items of the two listings of a poll
Listed(st) ==
  { createLightID(st.lightsInfo[i], TRUE) : i \in DOMAIN st.lightsInfo } \cup
  { createLightID(st.groupInfo[i], FALSE) : i \in DOMAIN st.groupInfo }

\* C22, for every step: a light that is known stays known unless the step
\* is stop(), which leaves no light at all; a poll leaves a known light
\* that its listings omit exactly as it was.
PollKeepsLights ==
  [][ /\ (\E id \in DOMAIN lights : id \notin DOMAIN lights') =>
           (step'.op = "stop" /\ lights' = <<>>)
      /\ step'.op = "processItems" =>
           \A id \in DOMAIN lights \ Listed(step') :
             id \in DOMAIN lights' /\ lights'[id] = lights[id] ]_vars

\* a poll whose listing of lights was empty left the known light1 in place
PollKeepsLightsWitness ==
  /\ step.op = "processItems"
  /\ step.lightsInfo = <<>>
  /\ "light1" \in DOMAIN lights

\* the capabilities a stored state gives: BRI always, XY for an xy of two
\* numbers, HS for a hue and a sat, CT for a ct
deriveCapabilities(state) ==
  { cap \in {"BRI", "XY", "HS", "CT"} :
      \/ cap = "BRI"
      \/ cap = "XY" /\ Len(state.xy) = 2 /\ state.xy[1] # NA /\ state.xy[2] # NA
      \/ cap = "HS" /\ state.hue # NA /\ state.sat # NA
      \/ cap = "CT" /\ state.ct # NA }

\* C23, in every state (after the constructor, after every updateInfo and
\* every setColor): the capability of a light is the one its stored state
\* gives.
CapabilityDerived ==
  \A id \in DOMAIN lights :
    lights[id].info.capability = deriveCapabilities(lights[id].state)

\* an updateInfo was processed and changed the capability of the light
CapabilityDerivedWitness ==
  /\ step.op = "updateInfo"
  /\ ret.v = "none"
  /\ step.before[1].info.capability # lights[step.id].info.capability
  /\ "CT" \in lights[step.id].info.capability
  /\ "CT" \notin step.before[1].info.capability

\* what updateInfo is given is null, undefined, a number, a string, or, for
\* a light, an object without state
MalformedInfo(light, hueInfo) ==
  \/ hueInfo.typeof \in {"null", "undefined", "number", "string"}
  \/ light.isLight /\ hueInfo.typeof = "object" /\ ~hueInfo.hasState

\* C24, for every updateInfo after the light's deadline: given a malformed
\* hueInfo it throws nothing, emits nothing and leaves the light as it was.
MalformedInfoDropped ==
  [][ (/\ step'.op = "updateInfo"
       /\ MalformedInfo(lights[step'.id], step'.hueInfo)
       /\ lights[step'.id].modified < now) =>
        /\ ret'.v = "none"
        /\ emitted' = <<>>
        /\ lights' = lights ]_vars

\* updateInfo(null) threw after the light's deadline
MalformedInfoThrows ==
  /\ step.op = "updateInfo"
  /\ step.hueInfo = Value("null")
  /\ step.before[1].modified < now
  /\ ret.v = "threw"
  /\ lights[step.id] = step.before[1]

\* C25, for every setColor, whatever the command: nothing is thrown, and
\* the command is either accepted or answered with a warning that leaves
\* the light as it was.
CommandNeverThrows ==
  [][ step'.op = "setColor" =>
        /\ ret'.v # "threw"
        /\ \/ Accepted(step', ret', emitted')
           \/ /\ \E i \in DOMAIN emitted' : emitted'[i].ev = "warning"
              /\ lights' = lights ]_vars

\* setColor({}) threw on a light with the XY capability, without a warning
EmptyCommandThrows ==
  /\ step.op = "setColor"
  /\ step.input = Obj(Empty)
  /\ "XY" \in lights[step.id].info.capability
  /\ ret.v = "threw"
  /\ emitted = <<>>
  /\ lights[step.id] = step.before[1]

\* the deliveries of a step that went to node
DeliveredTo(node, del) == { i \in DOMAIN del : del[i].node = node }

\* C26, for every step: a node created for a light that is known is handed
\* one message at once, tagged 'new' and carrying the light's state; a
\* node created for a light that is not known is handed nothing; a poll
\* defers one 'new' callback for every light it creates and none for the
\* others; and when that callback runs every node listening to the light
\* is handed exactly one message, tagged 'new', and no other node any.
NewOnRegistration ==
  [][ /\ step'.op = "LightNode" =>
           \E node \in listeners' \ listeners :
             IF step'.id \in DOMAIN lights
             THEN /\ Len(delivered') = 1
                  /\ delivered'[1].node = node
                  /\ delivered'[1].event = "new"
                  /\ delivered'[1].message.event = "new"
                  /\ delivered'[1].message.id = step'.id
                  /\ delivered'[1].message.state = lights[step'.id].state
             ELSE delivered' = <<>>
      /\ step'.op = "processItems" =>
           \A id \in LightIDs :
             Cardinality({ i \in DOMAIN nextTick' :
                             nextTick'[i].cb = "new" /\ nextTick'[i].lightID = id })
               = IF id \notin DOMAIN lights /\ id \in DOMAIN lights' THEN 1 ELSE 0
      /\ (step'.op = "nextTick" /\ Head(nextTick).cb = "new") =>
           \A node \in Nodes :
             /\ Cardinality(DeliveredTo(node, delivered'))
                  = IF node \in listeners /\ nodeLightID(node) = Head(nextTick).lightID
                    THEN 1 ELSE 0
             /\ \A i \in DeliveredTo(node, delivered') :
                  /\ delivered'[i].event = "new"
                  /\ delivered'[i].message = Head(nextTick).message
                  /\ delivered'[i].message.event = "new" ]_vars

\* two nodes that listen to light1 were each handed the one 'new' message
\* of the light a poll had created
NewOnRegistrationWitness ==
  /\ step.op = "nextTick"
  /\ step.id = "light1"
  /\ listeners = Nodes
  /\ Len(delivered) = 2
  /\ \A i \in DOMAIN delivered : delivered[i].event = "new"
  /\ "light1" \in DOMAIN lights

BriDevice == 254

\* a percentage on the scale of 254, rounded and held in 0..254
DeviceUnits254(p) ==
  LET q == (2 * p * BriDevice + 100) \div 200
  IN  IF q < 0 THEN 0 ELSE IF q > BriDevice THEN BriDevice ELSE q

\* C29, for every accepted setColor: a bri (else brightness) of p percent
\* that a light which is on after the command stores is
\* round(p * 254 / 100) held in 0..254, and whatever the command the
\* stored brightness is no more than 254.
BrightnessScale254 ==
  [][ Accepted(step', ret', emitted') =>
        LET after == lights'[step'.id].state
            o == inputObject(step'.input)
        IN  /\ after.bri # NA => after.bri <= BriDevice
            /\ (BrightnessField(o) # NA /\ after.on) =>
                 after.bri = DeviceUnits254(BrightnessField(o)) ]_vars

\* a command with a brightness of 100 percent was accepted by a light
\* without colour and stored 255
BrightnessFull255 ==
  /\ Accepted(step, ret, emitted)
  /\ step.input.type = "object"
  /\ step.input.o.brightness = 100
  /\ step.input.o.xy = <<>>
  /\ lights[step.id].info.capability = {"BRI"}
  /\ lights[step.id].state.on
  /\ lights[step.id].state.bri = 255

\* C30, for every accepted command object with alert: the light state
\* sent to the bridge carries alert 'lselect' for alert 'lselect' and
\* alert 'none' for alert false.
AlertPassedOn ==
  [][ (Accepted(step', ret', emitted') /\ step'.input.type = "object"
         /\ step'.input.o.alert # "undef") =>
        \E i \in DOMAIN emitted' :
          /\ emitted'[i].ev = "sendToLight"
          /\ emitted'[i].intent.alert =
               IF step'.input.o.alert = "lselect" THEN "lselect" ELSE "none" ]_vars

\* a command with alert 'lselect' was accepted and the light state sent to
\* the bridge carries no alert
AlertDropped ==
  /\ Accepted(step, ret, emitted)
  /\ step.input.type = "object"
  /\ step.input.o.alert = "lselect"
  /\ \E i \in DOMAIN emitted : emitted[i].ev = "sendToLight"
  /\ \A i \in DOMAIN emitted :
       emitted[i].ev = "sendToLight" => emitted[i].intent.alert = "undef"

\* the commands for pure red: hex '#ff0000', rgb [255,0,0], or the three
\* channels red 255, green 0, blue 0
Red(input) ==
  /\ input.type = "object"
  /\ \/ input.o.hex = "#ff0000"
     \/ input.o.rgb = <<255, 0, 0>>
     \/ input.o.red = 255 /\ input.o.green = 0 /\ input.o.blue = 0

\* a light with brightness and hue/sat alone, in the state on, bri 1,
\* hue 0, sat 0
HueSatLight(light) ==
  /\ light.info.capability = {"BRI", "HS"}
  /\ light.state.on
  /\ light.state.bri = 1
  /\ light.state.hue = 0
  /\ light.state.sat = 0

\* C31: on a light with brightness and hue/sat alone, in the state on,
\* bri 1, hue 0, sat 0, a command for pure red (hex, rgb or the three
\* channels) is accepted and leaves hue 0, sat 255 and bri 255.
RedOnHueSat ==
  [][ (step'.op = "setColor" /\ Red(step'.input)
         /\ HueSatLight(lights[step'.id])) =>
        /\ Accepted(step', ret', emitted')
        /\ lights'[step'.id].state.hue = 0
        /\ lights'[step'.id].state.sat = 255
        /\ lights'[step'.id].state.bri = 255 ]_vars

\* setColor({hex:'#ff0000'}) threw on such a light, emitted nothing and
\* left the brightness at 1
RedOnHueSatThrows ==
  /\ step.op = "setColor"
  /\ step.input.type = "object"
  /\ step.input.o.hex = "#ff0000"
  /\ HueSatLight(step.before[1])
  /\ HueSatLight(lights[step.id])
  /\ ret.v = "threw"
  /\ emitted = <<>>

Triggering(st) ==
  st.op \in {"processItems", "lightsAnswer", "lightsError", "groupsError",
             "setLightState"}

\* C33: nothing is delivered to a listener of a light handler inside the
\* processing of a poll's listings, the construction of a light or
\* setLightState: what these calls have to tell is appended to the
\* deferred callbacks, and every 'new' and 'update' a handler emits is
\* emitted by a deferred callback that was queued before the step, with
\* the message taken when it was queued.
NotificationsDeferred ==
  [][ /\ Triggering(step') =>
           /\ delivered' = <<>>
           /\ Len(nextTick') >= Len(nextTick)
           /\ SubSeq(nextTick', 1, Len(nextTick)) = nextTick
      /\ (delivered' # <<>> /\ step'.op # "LightNode") =>
           /\ step'.op = "nextTick"
           /\ nextTick # <<>>
           /\ \A i \in DOMAIN delivered' :
                /\ delivered'[i].event = Head(nextTick).cb
                /\ delivered'[i].message = Head(nextTick).message ]_vars

\* setLightState was accepted for a light with a listener: the 'change'
\* message waits among the deferred callbacks and nothing was delivered
NotificationsDeferredWitness ==
  /\ step.op = "setLightState"
  /\ ret.v = "true"
  /\ handlerListeners(step.id) # {}
  /\ delivered = <<>>
  /\ Len(nextTick) = 1
  /\ nextTick[1].cb = "update"
  /\ nextTick[1].message.event = "change"

\* C34: when the first updateInfo processed after an accepted command (the
\* echo deadline has passed) reports the values of the light state sent
\* for the light, with the colormode the bridge uses, it finds the state
\* equal: it emits no 'update' and leaves the state as it is.
OwnCommandQuiet ==
  [][ (/\ step'.op = "updateInfo"
       /\ sent[step'.id] # <<>>
       /\ lights[step'.id].modified < now
       /\ step'.hueInfo = echo(lights[step'.id], sent[step'.id][1])) =>
        /\ emitted' = <<>>
        /\ lights'[step'.id].state = lights[step'.id].state ]_vars

\* a light with hue and saturation alone was sent a light state without
\* hue and saturation for a command with xy; after the deadline the bridge
\* reported the values sent, with colormode 'hs', and the updateInfo
\* emitted 'update' and replaced the colormode 'hsv' of the state
OwnCommandFlaps ==
  /\ step.op = "updateInfo"
  /\ step.before[1].info.capability = {"BRI", "HS"}
  /\ step.before[1].state.colormode = "hsv"
  /\ step.before[1].modified < now
  /\ step.hueInfo.hs.colormode = "hs"
  /\ step.hueInfo.hs.on = step.before[1].state.on
  /\ step.hueInfo.hs.bri = step.before[1].state.bri
  /\ step.hueInfo.hs.hue = step.before[1].state.hue
  /\ step.hueInfo.hs.sat = step.before[1].state.sat
  /\ emitted = <<Event("update", step.id, NoIntent)>>
  /\ lights[step.id].state.colormode = "hs"

\* the same answer of the bridge leaves a light that reports xy quiet: the
\* light state sent carried xy and brightness, and the state is found equal
OwnCommandQuietXY ==
  /\ step.op = "updateInfo"
  /\ step.before[1].modified > 0
  /\ step.before[1].modified < now
  /\ step.before[1].state.colormode = "xy"
  /\ step.hueInfo.hs = HueState(step.before[1].state.on, step.before[1].state.bri,
                                step.before[1].state.hue, step.before[1].state.sat,
                                step.before[1].state.xy, step.before[1].state.ct,
                                "xy", step.before[1].info.reachable)
  /\ step.before[1].state.xy = <<3000, 3000>>
  /\ emitted = <<>>

\* C35: a setColor after which the light is off changes nothing of the
\* stored state but on: brightness, colormode, hue, sat, xy and ct are as
\* before; and the light state it sends carries off and no brightness,
\* hue, sat, xy or ct.
OffChangesOnlyOn ==
  [][ (step'.op = "setColor" /\ ~lights'[step'.id].state.on) =>
        /\ lights'[step'.id].state = [lights[step'.id].state EXCEPT !.on = FALSE]
        /\ \A i \in DOMAIN emitted' :
             emitted'[i].ev = "sendToLight" =>
               /\ ~emitted'[i].intent.on
               /\ emitted'[i].intent.bri = NA
               /\ emitted'[i].intent.hue = NA
               /\ emitted'[i].intent.sat = NA
               /\ emitted'[i].intent.xy = <<>>
               /\ emitted'[i].intent.ct = NA ]_vars

\* a light that was on with ct accepted {on:false, bri:50}: it is off, its
\* brightness and ct are as before, not the brightness of the command,
\* and the light state sent is off alone
OffChangesOnlyOnWitness ==
  /\ step.op = "setColor"
  /\ step.input = Obj([Empty EXCEPT !.on = "false", !.bri = 50])
  /\ ret.v = "none"
  /\ step.before[1].state.on
  /\ step.before[1].state.colormode = "ct"
  /\ ~lights[step.id].state.on
  /\ lights[step.id].state.bri = step.before[1].state.bri
  /\ lights[step.id].state.bri # 128
  /\ lights[step.id].state.ct = step.before[1].state.ct
  /\ Len(emitted) = 2
  /\ emitted[1] = Event("sendToLight", lights[step.id].info.id, NoIntent)

\* the item cannot be converted: a light listed without state, or a group
\* listed without colormode and without state
Stateless(hueInfo, isLight) ==
  \/ isLight /\ ~hueInfo.hasState
  \/ ~isLight /\ hueInfo.hs.colormode = "undef" /\ ~hueInfo.hasState

\* creating the light from the item, or reconciling the light with it when
\* its deadline has passed, fails
ItemFails(ls, t, hueInfo, isLight) ==
  LET lightID == createLightID(hueInfo, isLight) IN
  /\ Stateless(hueInfo, isLight)
  /\ lightID \in DOMAIN ls => ls[lightID].modified < t

\* the item was created or reconciled: the light exists and, unless its
\* deadline made it ignore the item, holds the state and name of the item
ItemTaken(ls, after, t, hueInfo, isLight) ==
  LET lightID == createLightID(hueInfo, isLight) IN
  /\ lightID \in DOMAIN after
  /\ \/ lightID \in DOMAIN ls /\ ls[lightID].modified >= t
     \/ /\ after[lightID].state = convertHueState(hueInfo, isLight)
        /\ after[lightID].info.name = hueInfo.name

\* C36: when the listings of a poll are processed, every item that fails
\* is answered with one 'error' event and nothing is thrown, every other
\* item of the same listing, before or after it, is created or reconciled
\* (group 0 is skipped), and the interval timer stays armed.
ItemFailureContained ==
  [][ step'.op = "processItems" =>
        LET checked(list, isLight) ==
              \A i \in DOMAIN list :
                \/ ~isLight /\ list[i].id = "0"
                \/ IF ItemFails(lights, now, list[i], isLight)
                   THEN Event("error", createLightID(list[i], isLight), NoIntent)
                          \in { emitted'[k] : k \in DOMAIN emitted' }
                   ELSE ItemTaken(lights, lights', now, list[i], isLight)
        IN  /\ checked(step'.lightsInfo, TRUE)
            /\ checked(step'.groupInfo, FALSE)
            /\ ret'.v = "none"
            /\ lightPollInterval => lightPollInterval' ]_vars

\* a timer's poll listed light 2 without state before light 1: one 'error'
\* was emitted for light 2, which does not exist, light 1, known before
\* under another name, was reconciled with its item, and the timer is armed
ItemFailureContainedWitness ==
  /\ step.op = "processItems"
  /\ step.callback = "ignore"
  /\ Len(step.lightsInfo) = 2
  /\ step.lightsInfo[1] = LightTwo
  /\ emitted = <<Event("error", "light2", NoIntent)>>
  /\ "light2" \notin DOMAIN lights
  /\ step.previous["light1"] # <<>>
  /\ step.previous["light1"][1].hueInfo.name # step.lightsInfo[2].name
  /\ "light1" \in DOMAIN lights
  /\ lights["light1"].info.name = step.lightsInfo[2].name
  /\ lights["light1"].state = convertHueState(step.lightsInfo[2], TRUE)
  /\ lightPollInterval
====
